---------------------------- MODULE Spec2Model ----------------------------
(***************************************************************************)
(* wizlight: the UDP retry client (protocol.py) and the push manager       *)
(* (push.py) as state machines.                                            *)
(*                                                                         *)
(* Time is counted in half seconds: every delay and timeout of the source  *)
(* (0.5, 1.5, 3.0, 6.0, 11.0 s) is a whole number of half seconds.         *)
(* Strings the code transforms (MAC addresses) are sequences of one-       *)
(* character strings.                                                      *)
(***************************************************************************)
EXTENDS Integers, Sequences, FiniteSets, TLC

(***************************************************************************)
(* Bounds of the model.                                                    *)
(***************************************************************************)
\* replies of the device that may be in flight at once
MaxInFlight == 1
\* subscribe() calls in one run
MaxSubscribe == 2
\* endpoints the push manager may ask the event loop for in one run
MaxEndpoints == 2

(***************************************************************************)
(* Program constants, in half seconds.                                     *)
(***************************************************************************)
\* _TOTAL_TIMEOUT = 11.0
_TOTAL_TIMEOUT == 22
\* the 3.0 of min(timeout, 3.0)
AttemptCap == 6
\* _RETRY_DELAYS = [0, 0.5, 1.5, 3.0, 6.0]
_RETRY_DELAYS == <<0, 1, 3, 6, 12>>

\* retry_delays arguments of UDPClient(...) the model constructs clients with
ScheduleArgs == {<<>>, _RETRY_DELAYS, <<0, 0>>, <<2>>}
\* timeout arguments of send(...): 0 s, 1 s and the default
TimeoutArgs == {0, 2, _TOTAL_TIMEOUT}

VARIABLES
    \* ---- UDPClient / WizProtocol (protocol.py) ----
    retry_delays,   \* UDPClient._retry_delays
    timeout,        \* the timeout argument of the running send()
    pc,             \* where the send() coroutine is
    idx,            \* position of the for loop in retry_delays (1-based)
    clock,          \* half seconds elapsed since send() was called
    deadline,       \* clock value at which the pending sleep / wait_for ends
    sent,           \* datagrams handed to transport.sendto by this send()
    future,         \* WizProtocol._response_future
    last_exc,       \* the local last_exc of send()
    outcome,        \* what send() returned or raised
    net,            \* replies of the device still in flight
    replied,        \* whether the device has ever answered
    dropped,        \* whether the pending attempt has ignored a datagram
    \* ---- PushManager (push.py) ----
    running,        \* PushManager._running
    transport,      \* PushManager._transport: 0 (None) or an index of endpoints
    protocol,       \* PushManager._protocol: "none" or "set"
    endpoints,      \* every endpoint ever bound to the push port: "open"/"closed"
    startPending,   \* start() calls suspended in create_datagram_endpoint
    subscribers,    \* PushManager._subscribers
    disposers,      \* the unsubscribe closures subscribe() has returned
    discovery_callbacks, \* PushManager._discovery_callbacks
    last,           \* the operation that ran last, with the callbacks it invoked
    \* ---- find_wizlights / BroadcastProtocol (discovery.py, protocol.py) ----
    fw_pc,          \* where the find_wizlights() coroutine is, or how it ended
    fw_timeout,     \* the timeout argument of find_wizlights()
    fw_i,           \* iterations of its for loop that have begun
    bc_endpoint,    \* its broadcast endpoint: "none", "open" or "closed"
    responses,      \* BroadcastProtocol.responses
    fw_result,      \* the list find_wizlights() returned
    \* ---- wizlight (bulb.py) ----
    client_given,   \* whether the constructor was given a client
    owns_client,    \* wizlight._owns_client
    client,         \* the transport of wizlight._client: "unopened", "open", "closed"
    f_state,        \* wizlight._state: NoState or a pilot
    f_mac,          \* wizlight._mac: NoMac or a MAC
    push_callback,  \* wizlight._push_callback: 0 (None) or a callback
    push_task,      \* wizlight._push_task: 0 (None) or an index of tasks
    tasks,          \* every keep-alive task start_push has created
    ucall,          \* the call of the facade its caller is awaiting
    starts,         \* start_push() calls made
    closes,         \* close() calls that have ended
    flast,          \* the facade event that ran last
    _bulbtype,      \* wizlight._bulbtype: NoBulbType (None) or a BulbType
    _system_config, \* wizlight._system_config: NoConfig (None) or a config
    power_monitoring, \* wizlight.power_monitoring: "None", "True" or "False"
    returned,       \* what get_power() returned or raised
    \* ---- detect_bulb_type (devices.py) ----
    d_pc,           \* "idle", "called" or "returned"
    module_name,    \* its module_name argument
    white_range,    \* its white_range argument
    detected,       \* the BulbType it returned
    \* ---- PilotBuilder (pilot.py) ----
    b_pc,           \* "idle", "called", "built" or "raised"
    kwargs,         \* the arguments of PilotBuilder(...)
    _params,        \* PilotBuilder._params, or what the constructor raised
    c_transport,    \* UDPClient._transport: 0 (None) or an index of c_endpoints
    c_endpoints,    \* every endpoint the client created, with its WizProtocol
    c_requests,     \* every _send_once() call, with its response future
    c_callers,      \* the calls in progress on the client, by task
    c_net,          \* datagrams on their way to the client's endpoints
    c_last          \* the step of the client that ran last

sendVars == <<retry_delays, timeout, pc, idx, clock, deadline, sent, future,
              last_exc, outcome, net, replied, dropped>>
pushVars == <<running, transport, protocol, endpoints, startPending,
              subscribers, disposers, discovery_callbacks, last>>
discVars == <<fw_pc, fw_timeout, fw_i, bc_endpoint, responses, fw_result>>
facadeVars == <<client_given, owns_client, client, f_state, f_mac,
                push_callback, push_task, tasks, ucall, starts, closes, flast>>
capVars == <<_bulbtype, _system_config, power_monitoring, returned>>
detectVars == <<d_pc, module_name, white_range, detected>>
buildVars == <<b_pc, kwargs, _params>>
clientVars == <<c_transport, c_endpoints, c_requests, c_callers, c_net, c_last>>
libVars == <<capVars, detectVars, buildVars, clientVars>>
otherVars == <<discVars, facadeVars, libVars>>
vars == <<sendVars, pushVars, otherVars>>

(***************************************************************************)
(* Helpers.                                                                *)
(***************************************************************************)
Min(a, b) == IF a <= b THEN a ELSE b

\* the positions of x in list l
Positions(l, x) == {i \in 1..Len(l) : l[i] = x}
\* list l without its position i
Without(l, i) == [j \in 1..(Len(l) - 1) |-> IF j < i THEN l[j] ELSE l[j + 1]]
\* the smallest member of a non-empty set of numbers
Least(S) == CHOOSE i \in S : \A j \in S : i <= j

RECURSIVE SumSeq(_)
SumSeq(s) == IF s = <<>> THEN 0 ELSE Head(s) + SumSeq(Tail(s))

NoExc == [attempt |-> 0, kind |-> "none"]
NoFuture == [state |-> "none", kind |-> "none", req |-> 0]
NoOutcome == [kind |-> "none", response |-> "none", cause |-> NoExc]


(***************************************************************************)
(* UDPClient (protocol.py).                                                *)
(***************************************************************************)
\* UDPClient.__init__: retry_delays or list(_RETRY_DELAYS)
Schedule(arg) == IF arg = <<>> THEN _RETRY_DELAYS ELSE arg

\* the timeout argument handed on as it is
AttemptTimeoutNoCap(t) == t
\* the timeout send() hands to _send_once: min(timeout, 3.0)
AttemptTimeout(t) == Min(t, AttemptCap)

\* a loop that stops one entry short
LoopDoneEarly(i) == i >= Len(retry_delays)
\* the for loop over self._retry_delays is exhausted at (1-based) position i
LoopDone(i) == i > Len(retry_delays)

\* a loop that a failed attempt ends
GiveUp(i) == Len(retry_delays) + 1
\* continue: after the attempt at position i the for loop takes its next
\* entry
Continue(i) == i + 1

\* except (TimeoutError, WizLightConnectionError) as exc: last_exc = exc
RecordFailure(old, i, kind) == [attempt |-> i, kind |-> kind]

\* a response that is never looked into
HasErrorKeyNever(f) == FALSE
\* "error" in response
HasErrorKey(f) == f.kind = "error"

\* The part of the send() coroutine's state that one step of it rewrites.
Local(p, i, d, s, f, e, o) ==
    [pc |-> p, idx |-> i, deadline |-> d, sent |-> s, future |-> f,
     last_exc |-> e, outcome |-> o]

(* send(), from the head of the for loop at position i to its next          *)
(* suspension point: the sleep of a positive delay, the wait_for of         *)
(* _send_once, or the raise after the loop. s counts the datagrams sent so  *)
(* far, e is last_exc, f the protocol's future, now the clock, t the        *)
(* timeout argument. A wait_for with timeout 0 cancels the future and       *)
(* raises TimeoutError without yielding, so the loop goes on in one step.   *)
RECURSIVE RunLoop(_, _, _, _, _, _)
RunLoop(i, s, e, f, now, t) ==
    IF LoopDone(i)
    THEN Local("done", i, now, s, f, e,
               [kind |-> "timeout-error", response |-> "none", cause |-> e])
    ELSE IF retry_delays[i] > 0
    THEN Local("sleeping", i, now + retry_delays[i], s, f, e, NoOutcome)
    ELSE IF AttemptTimeout(t) <= 0
    THEN RunLoop(Continue(i), s + 1, RecordFailure(e, i, "timeout"),
                 [state |-> "cancelled", kind |-> "none", req |-> 0], now, t)
    ELSE Local("waiting", i, now + AttemptTimeout(t), s + 1,
               [state |-> "pending", kind |-> "none", req |-> 0], e, NoOutcome)

(* _send_once at position i after the sleep: create the future, sendto,     *)
(* wait_for.                                                                *)
AfterSleep(i, s, e, f, now, t) ==
    IF AttemptTimeout(t) <= 0
    THEN RunLoop(Continue(i), s + 1, RecordFailure(e, i, "timeout"),
                 [state |-> "cancelled", kind |-> "none", req |-> 0], now, t)
    ELSE Local("waiting", i, now + AttemptTimeout(t), s + 1,
               [state |-> "pending", kind |-> "none", req |-> 0], e, NoOutcome)

Apply(l) ==
    /\ pc' = l.pc
    /\ idx' = l.idx
    /\ deadline' = l.deadline
    /\ sent' = l.sent
    /\ future' = l.future
    /\ last_exc' = l.last_exc
    /\ outcome' = l.outcome

\* await client.send(ip, message, timeout=t)
SendCall(t) ==
    /\ pc = "idle"
    /\ timeout' = t
    /\ clock' = 0
    /\ Apply(RunLoop(1, 0, NoExc, future, 0, t))
    /\ dropped' = FALSE
    /\ UNCHANGED <<retry_delays, net, replied, pushVars, otherVars>>

\* asyncio.sleep(delay) returns and the attempt is made
WakeUp ==
    /\ pc = "sleeping"
    /\ clock = deadline
    /\ Apply(AfterSleep(idx, sent, last_exc, future, clock, timeout))
    /\ dropped' = FALSE
    /\ UNCHANGED <<retry_delays, timeout, clock, net, replied, pushVars, otherVars>>

\* wait_for times out: the future is cancelled, TimeoutError is caught by send()
WaitTimeout ==
    /\ pc = "waiting"
    /\ future.state = "pending"
    /\ clock = deadline
    /\ Apply(RunLoop(Continue(idx), sent,
                     RecordFailure(last_exc, idx, "timeout"),
                     [state |-> "cancelled", kind |-> "none", req |-> 0],
                     clock, timeout))
    /\ dropped' = FALSE
    /\ UNCHANGED <<retry_delays, timeout, clock, net, replied, pushVars, otherVars>>

\* the awaiting send() resumes with the future's result or exception
Resume ==
    /\ pc = "waiting"
    /\ future.state \in {"result", "exception"}
    /\ IF future.state = "exception"
       THEN Apply(RunLoop(Continue(idx), sent,
                          RecordFailure(last_exc, idx, "connection"),
                          future, clock, timeout))
       ELSE IF HasErrorKey(future)
       THEN Apply(Local("done", idx, deadline, sent, future, last_exc,
                        [kind |-> "command-error", response |-> "none",
                         cause |-> NoExc]))
       ELSE Apply(Local("done", idx, deadline, sent, future, last_exc,
                        [kind |-> "response", response |-> future.kind,
                         cause |-> NoExc]))
    /\ dropped' = (dropped /\ future.state = "result")
    /\ UNCHANGED <<retry_delays, timeout, clock, net, replied, pushVars, otherVars>>

\* half a second passes while send() sleeps or waits
Tick ==
    /\ \/ pc = "sleeping"
       \/ pc = "waiting" /\ future.state = "pending"
    /\ clock < deadline
    /\ clock' = clock + 1
    /\ UNCHANGED <<retry_delays, timeout, pc, idx, deadline, sent, future,
                   last_exc, outcome, net, replied, dropped, pushVars,
                   otherVars>>

\* the device answers one of the datagrams it was sent
DeviceReply(r, k) ==
    /\ r \in 1..sent
    /\ Cardinality(net) < MaxInFlight
    /\ net' = net \cup {[req |-> r, kind |-> k]}
    /\ replied' = TRUE
    /\ UNCHANGED <<retry_delays, timeout, pc, idx, clock, deadline, sent,
                   future, last_exc, outcome, dropped, pushVars, otherVars>>

\* a protocol that takes every datagram for a message
DecodesAnything(kind) == TRUE
\* json.loads(data.decode("utf-8")) raises neither JSONDecodeError nor
\* UnicodeDecodeError
Decodes(kind) == kind # "malformed"

\* WizProtocol.datagram_received
datagram_received(m) ==
    /\ m \in net
    /\ net' = net \ {m}
    /\ IF Decodes(m.kind)
       THEN /\ future' = IF future.state = "pending"
                         THEN [state |-> "result", kind |-> m.kind, req |-> m.req]
                         ELSE future
            /\ UNCHANGED dropped
       ELSE /\ dropped' = (dropped \/ future.state = "pending")
            /\ UNCHANGED future
    /\ UNCHANGED <<retry_delays, timeout, pc, idx, clock, deadline, sent,
                   last_exc, outcome, replied, pushVars, otherVars>>

\* WizProtocol.error_received
error_received ==
    /\ pc = "waiting"
    /\ future.state = "pending"
    /\ future' = [state |-> "exception", kind |-> "connection", req |-> 0]
    /\ UNCHANGED <<retry_delays, timeout, pc, idx, clock, deadline, sent,
                   last_exc, outcome, net, replied, dropped, pushVars,
                   otherVars>>

SendInit ==
    /\ retry_delays \in {Schedule(a) : a \in ScheduleArgs}
    /\ timeout = _TOTAL_TIMEOUT
    /\ pc = "idle"
    /\ idx = 0
    /\ clock = 0
    /\ deadline = 0
    /\ sent = 0
    /\ future = NoFuture
    /\ last_exc = NoExc
    /\ outcome = NoOutcome
    /\ net = {}
    /\ replied = FALSE
    /\ dropped = FALSE


(***************************************************************************)
(* PushManager (push.py).                                                  *)
(***************************************************************************)
\* MAC addresses as the callers and the devices write them
MacPlain == <<"a","a","b","b","c","c","d","d","e","e","f","f">>
MacColon == <<"A","A",":","B","B",":","C","C",":","D","D",":","E","E",":","F","F">>
MacDash  == <<"A","A","-","B","B","-","C","C","-","D","D","-","E","E","-","F","F">>
MacOther == <<"a","0","b","0","c","0","d","0","e","0","f","0">>
\* mac arguments of subscribe()
SubscribeMacs == {MacPlain, MacColon, MacDash, MacOther}
\* params.mac of inbound push messages; <<>> is a message without a mac
MessageMacs == {MacPlain, MacColon, MacOther, <<>>}
PeerIps == {"192.168.1.50"}

\* The callbacks callers register, by what they do when invoked: cb_plain
\* returns, cb_raises raises, cb_once invokes the disposer it was given for
\* its subscription under MacPlain (a one-shot subscriber).
Callbacks == {"cb_plain", "cb_raises", "cb_once"}
DiscoveryCallbacks == {"dcb_1"}
\* the discovery callbacks of the callers of a manager that only receives
\* firstBeat messages: one that returns, one that raises, and one that
\* invokes its own disposer
FirstBeatCallbacks == {"dcb_1", "dcb_raises", "dcb_once"}
\* the peers firstBeat messages come from
FirstBeatPeers == {"192.168.1.50", "192.168.1.51"}

EmptyDict == [k \in {} |-> <<>>]
DictSet(d, k, v) == [x \in (DOMAIN d) \cup {k} |-> IF x = k THEN v ELSE d[x]]
DictDel(d, k) == [x \in (DOMAIN d) \ {k} |-> d[x]]
DictGet(d, k, default) == IF k \in DOMAIN d THEN d[k] ELSE default

\* str.lower() on one character
LowerChar(c) ==
    CASE c = "A" -> "a" [] c = "B" -> "b" [] c = "C" -> "c"
      [] c = "D" -> "d" [] c = "E" -> "e" [] c = "F" -> "f"
      [] OTHER -> c
\* str.lower()
Lower(str) == [i \in 1..Len(str) |-> LowerChar(str[i])]
\* str.replace(ch, "")
Strip(str, ch) == SelectSeq(str, LAMBDA c : c # ch)

\* subscribe: mac.lower().replace(":", "").replace("-", "")
NormalizeMac(mac) == Strip(Strip(Lower(mac), ":"), "-")

\* _handle_sync_pilot / _handle_first_beat: params.get("mac", "").lower()
MessageKey(mac) == Lower(mac)

\* position of the first x in list l, 0 when there is none
RECURSIVE IndexOf(_, _, _)
IndexOf(l, x, i) ==
    IF i > Len(l) THEN 0 ELSE IF l[i] = x THEN i ELSE IndexOf(l, x, i + 1)

RemoveAll(l, x) == SelectSeq(l, LAMBDA y : y # x)
\* with contextlib.suppress(ValueError): list.remove(x)
RemoveFirst(l, x) ==
    LET i == IndexOf(l, x, 1)
    IN  IF i = 0 THEN l
        ELSE [j \in 1..(Len(l) - 1) |-> IF j < i THEN l[j] ELSE l[j + 1]]

\* a closure that removes every occurrence of its callback
UnsubscribeEvery(subs, k, cb) ==
    IF k \in DOMAIN subs
    THEN LET l == RemoveAll(subs[k], cb)
         IN  IF l = <<>> THEN DictDel(subs, k) ELSE DictSet(subs, k, l)
    ELSE subs
\* the body of the unsubscribe closure of subscribe(), for its mac_lower k
\* and its callback cb
Unsubscribe(subs, k, cb) ==
    IF k \in DOMAIN subs
    THEN LET l == RemoveFirst(subs[k], cb)
         IN  IF l = <<>> THEN DictDel(subs, k) ELSE DictSet(subs, k, l)
    ELSE subs

\* the registry after subscribe(mac, cb)'s append
Subscribed(subs, mac, cb) ==
    LET k == NormalizeMac(mac)
    IN  DictSet(subs, k, Append(DictGet(subs, k, <<>>), cb))

Op(op, mac, cb, id, calls) ==
    [op |-> op, mac |-> mac, cb |-> cb, id |-> id, calls |-> calls,
     ip |-> "none"]
\* the dispatch of a firstBeat that came from peer ip
OpFrom(op, mac, ip, cb, calls) ==
    [op |-> op, mac |-> mac, cb |-> cb, id |-> 0, calls |-> calls, ip |-> ip]

\* a start() that does not look at _running
AlreadyRunningIgnored == FALSE
\* if self._running: return
AlreadyRunning == running

\* await manager.start(), up to its await of create_datagram_endpoint
start ==
    /\ IF AlreadyRunning
       THEN UNCHANGED <<protocol, startPending>>
       ELSE /\ Len(endpoints) + startPending < MaxEndpoints
            /\ protocol' = "set"
            /\ startPending' = startPending + 1
    /\ last' = Op("start", <<>>, "none", 0, <<>>)
    /\ UNCHANGED <<running, transport, endpoints, subscribers, disposers,
                   discovery_callbacks, sendVars, otherVars>>

\* create_datagram_endpoint returns to a suspended start(): the bind of
\* ("0.0.0.0", PUSH_PORT) fails with OSError while another endpoint holds
\* the port, and start() then raises
start_resume ==
    /\ startPending > 0
    /\ startPending' = startPending - 1
    /\ IF \E e \in 1..Len(endpoints) : endpoints[e] = "open"
       THEN /\ last' = Op("start_failed", <<>>, "none", 0, <<>>)
            /\ UNCHANGED <<running, transport, endpoints>>
       ELSE /\ endpoints' = Append(endpoints, "open")
            /\ transport' = Len(endpoints) + 1
            /\ running' = TRUE
            /\ last' = Op("start_done", <<>>, "none", 0, <<>>)
    /\ UNCHANGED <<protocol, subscribers, disposers, discovery_callbacks,
                   sendVars, otherVars>>

\* a stop() that leaves _running as it is
StopKeepsRunning == running
\* the value stop() leaves in _running
StopRunning == FALSE

\* await manager.stop()
stop ==
    /\ endpoints' = IF transport # 0
                    THEN [endpoints EXCEPT ![transport] = "closed"]
                    ELSE endpoints
    /\ transport' = 0
    /\ protocol' = "none"
    /\ running' = StopRunning
    /\ last' = Op("stop", <<>>, "none", 0, <<>>)
    /\ UNCHANGED <<startPending, subscribers, disposers, discovery_callbacks,
                   sendVars, otherVars>>

\* unsubscribe = manager.subscribe(mac, cb), by callers that subscribe at
\* most limit times in all
SubscribeWithin(limit, mac, cb) ==
    /\ Len(disposers) < limit
    /\ subscribers' = Subscribed(subscribers, mac, cb)
    /\ disposers' = Append(disposers, [mac |-> NormalizeMac(mac), cb |-> cb])
    /\ last' = Op("subscribe", <<>>, "none", 0, <<>>)
    /\ UNCHANGED <<running, transport, protocol, endpoints, startPending,
                   discovery_callbacks, sendVars, otherVars>>

subscribe(mac, cb) == SubscribeWithin(MaxSubscribe, mac, cb)

\* unsubscribe(), for the d-th closure subscribe() returned
unsubscribe(d) ==
    /\ d \in 1..Len(disposers)
    /\ subscribers' = Unsubscribe(subscribers, disposers[d].mac, disposers[d].cb)
    /\ last' = Op("unsubscribe", <<>>, "none", d, <<>>)
    /\ UNCHANGED <<running, transport, protocol, endpoints, startPending,
                   disposers, discovery_callbacks, sendVars, otherVars>>

\* manager.on_discovery(cb), by a caller that registers each of its
\* callbacks once
on_discovery(cb) ==
    /\ IndexOf(discovery_callbacks, cb, 1) = 0
    /\ discovery_callbacks' = Append(discovery_callbacks, cb)
    /\ last' = Op("on_discovery", <<>>, "none", 0, <<>>)
    /\ UNCHANGED <<running, transport, protocol, endpoints, startPending,
                   subscribers, disposers, sendVars, otherVars>>

\* the unsubscribe closure of on_discovery(cb)
discovery_unsubscribe(cb) ==
    /\ IndexOf(discovery_callbacks, cb, 1) # 0
    /\ discovery_callbacks' = RemoveFirst(discovery_callbacks, cb)
    /\ last' = Op("discovery_unsubscribe", <<>>, "none", 0, <<>>)
    /\ UNCHANGED <<running, transport, protocol, endpoints, startPending,
                   subscribers, disposers, sendVars, otherVars>>

\* what invoking callback cb does to the registry
CallbackEffect(cb, subs) ==
    IF /\ cb = "cb_once"
       /\ \E d \in 1..Len(disposers) :
              disposers[d] = [mac |-> NormalizeMac(MacPlain), cb |-> cb]
    THEN Unsubscribe(subs, NormalizeMac(MacPlain), cb)
    ELSE subs

\* whether invoking callback cb raises an exception
Raises(cb) == cb = "cb_raises"

\* except Exception: around the invocation of a callback that raised
ExceptionCaught(cb) == TRUE

(* for callback in callbacks: the loop of _handle_sync_pilot over the list   *)
(* object registered under key, at (1-based) position i. The list iterator   *)
(* reads the live list: a callback that removes an entry shortens it under   *)
(* the loop. An exception of a callback is caught and logged; one that is    *)
(* not caught ends the loop and leaves the dispatcher (escaped).             *)
RECURSIVE DispatchLoop(_, _, _, _)
DispatchLoop(subs, key, i, calls) ==
    LET callbacks == DictGet(subs, key, <<>>)
    IN  IF i > Len(callbacks)
        THEN [subs |-> subs, calls |-> calls, escaped |-> "none"]
        ELSE LET cb == callbacks[i]
                 after == CallbackEffect(cb, subs)
             IN  IF Raises(cb) /\ ~ExceptionCaught(cb)
                 THEN [subs |-> after, calls |-> Append(calls, cb),
                       escaped |-> cb]
                 ELSE DispatchLoop(after, key, i + 1, Append(calls, cb))

\* _handle_sync_pilot, for a message whose params.mac is mac
_handle_sync_pilot(mac) ==
    LET key == MessageKey(mac)
    IN  IF key = <<>>
        THEN [subs |-> subscribers, calls |-> <<>>, escaped |-> "none"]
        ELSE DispatchLoop(subscribers, key, 1, <<>>)

\* what invoking discovery callback cb does to the list of discovery
\* callbacks: a callback that wants one device invokes its own disposer
DiscoveryEffect(cb, dcbs) ==
    IF cb = "dcb_once" THEN RemoveFirst(dcbs, cb) ELSE dcbs

\* whether invoking discovery callback cb raises an exception
DiscoveryRaises(cb) == cb = "dcb_raises"

\* except Exception: around the invocation of a discovery callback
DiscoveryExceptionCaught(cb) == TRUE

(* for callback in self._discovery_callbacks: the loop of                   *)
(* _handle_first_beat at (1-based) position i, invoking callback(ip, mac).  *)
(* The iterator reads the live list, which a callback may shorten; an       *)
(* exception that is not caught ends the loop (escaped).                    *)
RECURSIVE FirstBeatLoop(_, _, _, _, _)
FirstBeatLoop(dcbs, i, ip, mac, calls) ==
    IF i > Len(dcbs)
    THEN [dcbs |-> dcbs, calls |-> calls, escaped |-> "none"]
    ELSE LET cb == dcbs[i]
             after == DiscoveryEffect(cb, dcbs)
             called == Append(calls, [cb |-> cb, ip |-> ip, mac |-> mac])
         IN  IF DiscoveryRaises(cb) /\ ~DiscoveryExceptionCaught(cb)
             THEN [dcbs |-> after, calls |-> called, escaped |-> cb]
             ELSE FirstBeatLoop(after, i + 1, ip, mac, called)

\* _handle_first_beat, for a message whose params.mac is mac, from peer ip
_handle_first_beat(mac, ip) ==
    LET key == MessageKey(mac)
    IN  IF key = <<>>
        THEN [dcbs |-> discovery_callbacks, calls |-> <<>>, escaped |-> "none"]
        ELSE FirstBeatLoop(discovery_callbacks, 1, ip, key, <<>>)

\* _PushProtocol.datagram_received and _on_message, for a decodable datagram
_on_message(method, mac, ip) ==
    /\ transport # 0
    /\ IF method = "syncPilot"
       THEN LET r == _handle_sync_pilot(mac)
            IN  /\ subscribers' = r.subs
                /\ last' = Op(method, mac, r.escaped, 0, r.calls)
                /\ UNCHANGED discovery_callbacks
       ELSE IF method = "firstBeat"
       THEN LET r == _handle_first_beat(mac, ip)
            IN  /\ discovery_callbacks' = r.dcbs
                /\ last' = OpFrom(method, mac, ip, r.escaped, r.calls)
                /\ UNCHANGED subscribers
       ELSE /\ last' = Op("ignored", <<>>, "none", 0, <<>>)
            /\ UNCHANGED <<subscribers, discovery_callbacks>>
    /\ UNCHANGED <<running, transport, protocol, endpoints, startPending,
                   disposers, sendVars, otherVars>>

\* _PushProtocol.datagram_received, for a datagram that is not JSON
undecodable_datagram ==
    /\ transport # 0
    /\ last' = Op("undecodable", <<>>, "none", 0, <<>>)
    /\ UNCHANGED <<running, transport, protocol, endpoints, startPending,
                   subscribers, disposers, discovery_callbacks, sendVars, otherVars>>

\* PushManager.__init__
PushInit ==
    /\ running = FALSE
    /\ transport = 0
    /\ protocol = "none"
    /\ endpoints = <<>>
    /\ startPending = 0
    /\ subscribers = EmptyDict
    /\ disposers = <<>>
    /\ discovery_callbacks = <<>>
    /\ last = Op("init", <<>>, "none", 0, <<>>)

(***************************************************************************)
(* find_wizlights and BroadcastProtocol (discovery.py, protocol.py).       *)
(***************************************************************************)
\* most datagrams the broadcast endpoint receives during one discovery
MaxResponses == 3

\* timeout arguments of find_wizlights(...), in seconds
DiscoveryTimeouts == {0, 1, 2}

\* the peer addresses the datagrams of a discovery come from
DiscoveryPeers == {"10.0.0.2", "10.0.0.3"}

(* What a decodable datagram holds for the collection loop: a result.mac    *)
(* (<<>> when the message has no result, the result no mac, or the mac is   *)
(* ""), or a JSON value .get cannot be called on (ok FALSE); and the peer   *)
(* address it came from.                                                    *)
Datagrams ==
    [ok : {TRUE}, mac : {MacPlain, MacColon, <<>>}, ip : DiscoveryPeers]
        \cup [ok : {FALSE}, mac : {<<>>}, ip : DiscoveryPeers]

\* the MACs that are keys of seen
SeenMacs(seen) == {seen[j].mac_address : j \in 1..Len(seen)}

\* a collection that records every response that has a mac
KeepRecordAlways(mac, seen) == mac # <<>>
\* if mac and mac not in seen
KeepRecord(mac, seen) == mac # <<>> /\ mac \notin SeenMacs(seen)

(* for response, addr in protocol.responses, from position i with the       *)
(* records seen holds (a dict, in insertion order); raised when a response  *)
(* is not a JSON object with an object result                               *)
RECURSIVE Deduplicate(_, _, _)
Deduplicate(resps, i, seen) ==
    IF i > Len(resps)
    THEN [raised |-> FALSE, records |-> seen]
    ELSE IF ~resps[i].ok
    THEN [raised |-> TRUE, records |-> <<>>]
    ELSE IF KeepRecord(resps[i].mac, seen)
    THEN Deduplicate(resps, i + 1,
                     Append(seen, [ip_address |-> resps[i].ip,
                                   mac_address |-> resps[i].mac]))
    ELSE Deduplicate(resps, i + 1, seen)

\* an exit that leaves the endpoint as it is
LeaveOnExit(ep) == ep
\* finally: transport.close()
CloseOnExit(ep) == "closed"

\* find_wizlights(timeout=t), to its await of create_datagram_endpoint
find_wizlights(t) ==
    /\ fw_pc = "idle"
    /\ fw_pc' = "creating"
    /\ fw_timeout' = t
    /\ UNCHANGED <<fw_i, bc_endpoint, responses, fw_result, sendVars, pushVars, facadeVars,
                   libVars>>

\* after the for loop: the collection, the return and the finally clause
Collect ==
    LET r == Deduplicate(responses, 1, <<>>)
    IN  /\ fw_pc' = IF r.raised THEN "raised" ELSE "returned"
        /\ fw_result' = r.records
        /\ bc_endpoint' = CloseOnExit(bc_endpoint)

\* one turn of for _ in range(timeout), up to its await of sleep(1); raises
\* tells whether transport.sendto raised
Iterate(raises) ==
    IF fw_i >= fw_timeout
    THEN Collect /\ UNCHANGED fw_i
    ELSE IF raises
    THEN /\ fw_pc' = "raised"
         /\ fw_i' = fw_i + 1
         /\ bc_endpoint' = CloseOnExit(bc_endpoint)
         /\ UNCHANGED fw_result
    ELSE /\ fw_pc' = "sleeping"
         /\ fw_i' = fw_i + 1
         /\ UNCHANGED <<bc_endpoint, fw_result>>

\* create_datagram_endpoint returns the open endpoint; the loop begins
endpoint_created(raises) ==
    /\ fw_pc = "creating"
    /\ LET ep == "open"
       IN  IF fw_timeout <= 0
           THEN Collect /\ UNCHANGED fw_i
           ELSE IF raises
           THEN /\ fw_pc' = "raised"
                /\ fw_i' = 1
                /\ bc_endpoint' = CloseOnExit(ep)
                /\ UNCHANGED fw_result
           ELSE /\ fw_pc' = "sleeping"
                /\ fw_i' = 1
                /\ bc_endpoint' = ep
                /\ UNCHANGED fw_result
    /\ UNCHANGED <<fw_timeout, responses, sendVars, pushVars, facadeVars,
                   libVars>>

\* asyncio.sleep(1) ends: the next turn of the loop, or what follows it
sleep_done(raises) ==
    /\ fw_pc = "sleeping"
    /\ Iterate(raises)
    /\ UNCHANGED <<fw_timeout, responses, sendVars, pushVars, facadeVars,
                   libVars>>

\* the task running find_wizlights() is cancelled while it awaits
fw_cancel ==
    /\ fw_pc \in {"creating", "sleeping"}
    /\ fw_pc' = "cancelled"
    /\ bc_endpoint' = IF fw_pc = "sleeping" THEN CloseOnExit(bc_endpoint)
                                            ELSE bc_endpoint
    /\ UNCHANGED <<fw_timeout, fw_i, responses, fw_result, sendVars, pushVars, facadeVars,
                   libVars>>

\* BroadcastProtocol.datagram_received, for a datagram that decodes to d
\* (one that is not JSON is dropped and changes nothing)
broadcast_received(d) ==
    /\ bc_endpoint = "open"
    /\ Len(responses) < MaxResponses
    /\ responses' = Append(responses, d)
    /\ UNCHANGED <<fw_pc, fw_timeout, fw_i, bc_endpoint, fw_result,
                   sendVars, pushVars, facadeVars,
                   libVars>>

\* before find_wizlights() is called
DiscInit ==
    /\ fw_pc = "idle"
    /\ fw_timeout = 0
    /\ fw_i = 0
    /\ bc_endpoint = "none"
    /\ responses = <<>>
    /\ fw_result = <<>>

(***************************************************************************)
(* wizlight, the per-device facade (bulb.py), with the push manager it     *)
(* subscribes to. Its caller awaits one call of the facade at a time and   *)
(* does not use a facade it has closed, other than to close it again; the  *)
(* keep-alive tasks and the device run beside the caller. What a send of   *)
(* UDPClient comes to (a response, or one of its errors) is chosen by the  *)
(* device and the network.                                                 *)
(***************************************************************************)
\* most start_push() calls on the facade
MaxStartPush == 2
\* most close() calls on the facade
MaxClose == 2

\* how an awaited UDPClient.send ends: with a response, or raising
\* WizLightTimeoutError / WizLightCommandError
SendOutcomes == {"response", "WizLightError"}
\* result.mac of a getSystemConfig or getPilot response; <<>> is a result
\* without a mac, or with mac ""
ConfigMacs == {MacPlain, <<>>}
\* the results of getPilot responses
PilotResults == [state : {"on", "off"}, mac : ConfigMacs]
\* {}, the default of response.get("params", {})
EmptyPilot == [state |-> "empty", mac |-> <<>>]
\* the mark of a key a response does not hold
Absent == [state |-> "absent", mac |-> <<>>]
\* getPilot responses
PilotResponses ==
    [result : PilotResults, params : {Absent}]
        \cup {[result |-> Absent, params |-> [state |-> "on", mac |-> <<>>]],
              [result |-> Absent, params |-> Absent]}
\* None, as the value of wizlight._state and of wizlight._mac
NoState == [state |-> "None", mac |-> <<>>]
NoMac == <<"None">>
\* params.mac of the syncPilot messages that reach the facade's manager
PushMacs == {MacPlain, MacOther}

\* the message of register_for_push
RegistrationMessage ==
    [method |-> "registration", id |-> 105, register |-> TRUE]

\* the facade event that ran last: the keep-alive task it belongs to (0:
\* the caller), the user callbacks it invoked, and the message it sent or
\* the response it received
FOp(op, task, invoked, data) ==
    [op |-> op, task |-> task, invoked |-> invoked, data |-> data]

\* if self._mac / if mac
Truthy(mac) == mac # NoMac /\ mac # <<>>

\* a facade that owns whatever client it has
OwnsClientAlways(given) == TRUE
\* self._owns_client = client is None
OwnsClient(given) == ~given

\* response.get("result", response.get("params", {}))
PilotOf(response) ==
    IF response.result # Absent THEN response.result
    ELSE IF response.params # Absent THEN response.params
    ELSE EmptyPilot

\* an update that stores whatever result.mac is
CacheMacAlways(old, mac) == mac
\* mac = result.get("mac"); if mac: self._mac = mac
CacheMac(old, mac) == IF Truthy(mac) THEN mac ELSE old

\* a start_push that does not subscribe
StartPushSkipsSubscribe(subs, mac) == subs
\* manager.subscribe(mac, self._on_push_update)
StartPushSubscribes(subs, mac) == Subscribed(subs, mac, "_on_push_update")

\* except Exception: of _register_push
RegisterPushCatches(exc) == exc # "CancelledError"
\* except Exception: inside the loop of _push_keep_alive
KeepAliveCatches(exc) == exc # "CancelledError"
\* a keep-alive that registers once
KeepAliveOnce == FALSE
\* while True: of _push_keep_alive
KeepAliveLoops == TRUE

\* the states of a task that has ended: it returned, it was cancelled, or
\* an exception left it
Ended == {"done", "cancelled", "failed"}

\* what await self._push_task raises in close(), by how the task ended
AwaitTask(how) ==
    CASE how = "cancelled" -> "CancelledError"
      [] how = "failed" -> "WizLightError"
      [] OTHER -> "none"

\* an await that suppresses nothing
SuppressedNone(exc) == FALSE
\* with contextlib.suppress(asyncio.CancelledError)
Suppressed(exc) == exc = "CancelledError"

\* start_push from manager.subscribe to the await inside _register_push
SubscribeAndRegister(mac) ==
    /\ subscribers' = StartPushSubscribes(subscribers, mac)
    /\ disposers' = Append(disposers, [mac |-> NormalizeMac(mac),
                                       cb |-> "_on_push_update"])
    /\ client' = "open"
    /\ ucall' = [op |-> "start_push", pc |-> "registering"]
    /\ flast' = FOp("register", 0, <<>>, RegistrationMessage)

\* start_push from mac = await self.getMac() to its next await
GetMac ==
    IF Truthy(f_mac)
    THEN SubscribeAndRegister(f_mac)
    ELSE /\ client' = "open"
         /\ ucall' = [op |-> "start_push", pc |-> "get_mac"]
         /\ flast' = FOp("send", 0, <<>>, "getSystemConfig")
         /\ UNCHANGED <<subscribers, disposers>>

\* start_push raises
StartPushRaises ==
    /\ ucall' = [op |-> "none", pc |-> "none"]
    /\ flast' = FOp("start_push_raised", 0, <<>>, "none")

\* await bulb.start_push(callback), to its first await; the k-th call
\* passes callback k
start_push ==
    /\ ucall.op = "none"
    /\ closes = 0
    /\ starts < MaxStartPush
    /\ starts' = starts + 1
    /\ push_callback' = starts + 1
    /\ IF running
       THEN GetMac /\ UNCHANGED <<protocol, startPending>>
       ELSE /\ protocol' = "set"
            /\ startPending' = startPending + 1
            /\ ucall' = [op |-> "start_push", pc |-> "starting"]
            /\ flast' = FOp("start_push", 0, <<>>, "none")
            /\ UNCHANGED <<subscribers, disposers, client>>
    /\ UNCHANGED <<running, transport, endpoints, discovery_callbacks, last,
                   client_given, owns_client, f_state, f_mac, push_task,
                   tasks, closes, sendVars, discVars,
                   libVars>>

\* create_datagram_endpoint returns to the manager.start() start_push awaits
manager_started ==
    /\ ucall = [op |-> "start_push", pc |-> "starting"]
    /\ startPending > 0
    /\ startPending' = startPending - 1
    /\ IF \E e \in 1..Len(endpoints) : endpoints[e] = "open"
       THEN /\ StartPushRaises
            /\ UNCHANGED <<running, transport, endpoints, subscribers,
                           disposers, client>>
       ELSE /\ endpoints' = Append(endpoints, "open")
            /\ transport' = Len(endpoints) + 1
            /\ running' = TRUE
            /\ GetMac
    /\ UNCHANGED <<protocol, discovery_callbacks, last, client_given,
                   owns_client, f_state, f_mac, push_callback, push_task,
                   tasks, starts, closes, sendVars, discVars,
                   libVars>>

\* the getSystemConfig send of getMac ends: with a response whose
\* result.mac is mac, or raising
get_mac_done(res, mac) ==
    /\ ucall = [op |-> "start_push", pc |-> "get_mac"]
    /\ IF res = "response"
       THEN /\ f_mac' = mac
            /\ SubscribeAndRegister(mac)
       ELSE /\ StartPushRaises
            /\ UNCHANGED <<f_mac, subscribers, disposers, client>>
    /\ UNCHANGED <<running, transport, protocol, endpoints, startPending,
                   discovery_callbacks, last, client_given, owns_client,
                   f_state, push_callback, push_task, tasks, starts, closes,
                   sendVars, discVars,
                   libVars>>

\* the registration send of _register_push ends; start_push creates the
\* keep-alive task and returns
register_done(res) ==
    /\ ucall = [op |-> "start_push", pc |-> "registering"]
    /\ IF res = "response" \/ RegisterPushCatches(res)
       THEN /\ tasks' = Append(tasks, [pc |-> "created", cancel |-> FALSE])
            /\ push_task' = Len(tasks) + 1
            /\ ucall' = [op |-> "none", pc |-> "none"]
            /\ flast' = FOp("start_push_done", 0, <<>>, "none")
       ELSE /\ StartPushRaises
            /\ UNCHANGED <<tasks, push_task>>
    /\ UNCHANGED <<pushVars, client_given, owns_client, client, f_state,
                   f_mac, push_callback, starts, closes, sendVars, discVars,
                   libVars>>

\* the event loop runs keep-alive task i for the first time: it sleeps
ka_start(i) ==
    /\ i \in 1..Len(tasks)
    /\ tasks[i] = [pc |-> "created", cancel |-> FALSE]
    /\ tasks' = [tasks EXCEPT ![i].pc = "sleeping"]
    /\ flast' = FOp("ka_start", i, <<>>, "none")
    /\ UNCHANGED <<pushVars, client_given, owns_client, client, f_state,
                   f_mac, push_callback, push_task, ucall, starts, closes,
                   sendVars, discVars,
                   libVars>>

\* asyncio.sleep(_PUSH_KEEP_ALIVE) ends in task i: _register_push sends
ka_wake(i) ==
    /\ i \in 1..Len(tasks)
    /\ tasks[i] = [pc |-> "sleeping", cancel |-> FALSE]
    /\ tasks' = [tasks EXCEPT ![i].pc = "registering"]
    /\ client' = "open"
    /\ flast' = FOp("register", i, <<>>, RegistrationMessage)
    /\ UNCHANGED <<pushVars, client_given, owns_client, f_state, f_mac,
                   push_callback, push_task, ucall, starts, closes,
                   sendVars, discVars,
                   libVars>>

\* the registration send of task i ends
ka_register_done(i, res) ==
    /\ i \in 1..Len(tasks)
    /\ tasks[i] = [pc |-> "registering", cancel |-> FALSE]
    /\ tasks' = [tasks EXCEPT ![i].pc =
                    IF res = "response" \/ RegisterPushCatches(res)
                                            \/ KeepAliveCatches(res)
                    THEN IF KeepAliveLoops THEN "sleeping" ELSE "done"
                    ELSE "failed"]
    /\ flast' = FOp("ka_register_done", i, <<>>, res)
    /\ UNCHANGED <<pushVars, client_given, owns_client, client, f_state,
                   f_mac, push_callback, push_task, ucall, starts, closes,
                   sendVars, discVars,
                   libVars>>

\* the event loop throws CancelledError into task i, which close() has
\* cancelled: a task that never ran ends cancelled, one inside the try of
\* _push_keep_alive absorbs the error and returns
ka_cancelled(i) ==
    /\ i \in 1..Len(tasks)
    /\ tasks[i].cancel
    /\ tasks[i].pc \notin Ended
    /\ tasks' = [tasks EXCEPT ![i].pc =
                    IF tasks[i].pc = "created" THEN "cancelled" ELSE "done"]
    /\ flast' = FOp("ka_cancelled", i, <<>>, "none")
    /\ UNCHANGED <<pushVars, client_given, owns_client, client, f_state,
                   f_mac, push_callback, push_task, ucall, starts, closes,
                   sendVars, discVars,
                   libVars>>

\* close() from if self._owns_client: to its return
CloseClient ==
    /\ client' = IF owns_client THEN "closed" ELSE client
    /\ closes' = closes + 1
    /\ ucall' = [op |-> "none", pc |-> "none"]
    /\ flast' = FOp("close_done", 0, <<>>, "none")

\* await bulb.close() (or async_close()), to its await of the task, or to
\* its return when there is no task to cancel
close ==
    /\ ucall.op = "none"
    /\ closes < MaxClose
    /\ IF push_task # 0 /\ tasks[push_task].pc \notin Ended
       THEN /\ tasks' = [tasks EXCEPT ![push_task].cancel = TRUE]
            /\ ucall' = [op |-> "close", pc |-> "awaiting"]
            /\ flast' = FOp("close", 0, <<>>, "none")
            /\ UNCHANGED <<client, closes>>
       ELSE /\ CloseClient
            /\ UNCHANGED tasks
    /\ UNCHANGED <<pushVars, client_given, owns_client, f_state, f_mac,
                   push_callback, push_task, starts, sendVars, discVars,
                   libVars>>

\* the cancelled task has ended: await self._push_task ends in close()
close_resume ==
    /\ ucall = [op |-> "close", pc |-> "awaiting"]
    /\ tasks[push_task].pc \in Ended
    /\ LET exc == AwaitTask(tasks[push_task].pc)
       IN  IF exc = "none" \/ Suppressed(exc)
           THEN CloseClient
           ELSE /\ closes' = closes + 1
                /\ ucall' = [op |-> "none", pc |-> "none"]
                /\ flast' = FOp("close_raised", 0, <<>>, exc)
                /\ UNCHANGED client
    /\ UNCHANGED <<pushVars, client_given, owns_client, f_state, f_mac,
                   push_callback, push_task, tasks, starts, sendVars,
                   discVars,
                   libVars>>

\* await bulb.updateState(), to the await of its getPilot send
updateState ==
    /\ ucall.op = "none"
    /\ closes = 0
    /\ client' = "open"
    /\ ucall' = [op |-> "updateState", pc |-> "get_pilot"]
    /\ flast' = FOp("send", 0, <<>>, "getPilot")
    /\ UNCHANGED <<pushVars, client_given, owns_client, f_state, f_mac,
                   push_callback, push_task, tasks, starts, closes,
                   sendVars, discVars,
                   libVars>>

\* the getPilot send ends: with response, or raising
updateState_done(res, response) ==
    /\ ucall = [op |-> "updateState", pc |-> "get_pilot"]
    /\ ucall' = [op |-> "none", pc |-> "none"]
    /\ IF res = "response"
       THEN /\ f_state' = PilotOf(response)
            /\ f_mac' = CacheMac(f_mac, PilotOf(response).mac)
            /\ flast' = FOp("updateState_done", 0, <<>>, response)
       ELSE /\ flast' = FOp("updateState_raised", 0, <<>>, "none")
            /\ UNCHANGED <<f_state, f_mac>>
    /\ UNCHANGED <<pushVars, client_given, owns_client, client,
                   push_callback, push_task, tasks, starts, closes,
                   sendVars, discVars,
                   libVars>>

\* _on_push_update, run once per entry of calls that is the facade's
\* dispatcher: the user callbacks it invokes
UserCalls(calls) ==
    LET n == Cardinality(Positions(calls, "_on_push_update"))
    IN  IF push_callback = 0 THEN <<>> ELSE [j \in 1..n |-> push_callback]

\* a syncPilot with params.mac mac reaches the manager's endpoint
push_message(mac) ==
    /\ transport # 0
    /\ LET r == _handle_sync_pilot(mac)
       IN  /\ subscribers' = r.subs
           /\ last' = Op("syncPilot", mac, r.escaped, 0, r.calls)
           /\ f_state' = IF Positions(r.calls, "_on_push_update") # {}
                         THEN [state |-> "off", mac |-> mac]
                         ELSE f_state
           /\ flast' = FOp("syncPilot", 0, UserCalls(r.calls), mac)
    /\ UNCHANGED <<running, transport, protocol, endpoints, startPending,
                   disposers, discovery_callbacks, client_given, owns_client,
                   client, f_mac, push_callback, push_task, tasks, ucall,
                   starts, closes, sendVars, discVars,
                   libVars>>

\* wizlight.__init__, with or without a client argument; a client that is
\* passed in may have been used before
FacadeInit ==
    /\ client_given \in BOOLEAN
    /\ owns_client = OwnsClient(client_given)
    /\ client \in (IF client_given THEN {"unopened", "open"} ELSE {"unopened"})
    /\ f_state = NoState
    /\ f_mac = NoMac
    /\ push_callback = 0
    /\ push_task = 0
    /\ tasks = <<>>
    /\ ucall = [op |-> "none", pc |-> "none"]
    /\ starts = 0
    /\ closes = 0
    /\ flast = FOp("init", 0, <<>>, "none")

(***************************************************************************)
(* detect_bulb_type (devices.py): the capability descriptor of a module     *)
(* name. Module names are sequences of characters, so that the substring    *)
(* tests and the upper-casing of the detector are computed, not assumed.    *)
(***************************************************************************)
\* the ASCII letters
ascii_lowercase ==
    <<"a", "b", "c", "d", "e", "f", "g", "h", "i", "j", "k", "l", "m",
      "n", "o", "p", "q", "r", "s", "t", "u", "v", "w", "x", "y", "z">>
ascii_uppercase ==
    <<"A", "B", "C", "D", "E", "F", "G", "H", "I", "J", "K", "L", "M",
      "N", "O", "P", "Q", "R", "S", "T", "U", "V", "W", "X", "Y", "Z">>
\* the position of c in the sequence letters, or 0
LetterIndex(letters, c) ==
    IF \E i \in 1..Len(letters) : letters[i] = c
    THEN CHOOSE i \in 1..Len(letters) : letters[i] = c
    ELSE 0
\* str.upper() and str.lower()
UpperChar(c) ==
    IF LetterIndex(ascii_lowercase, c) # 0
    THEN ascii_uppercase[LetterIndex(ascii_lowercase, c)] ELSE c
LowerCaseChar(c) ==
    IF LetterIndex(ascii_uppercase, c) # 0
    THEN ascii_lowercase[LetterIndex(ascii_uppercase, c)] ELSE c
Upper(s) == [i \in 1..Len(s) |-> UpperChar(s[i])]
LowerCase(s) == [i \in 1..Len(s) |-> LowerCaseChar(s[i])]
\* p in s, for strings
Contains(s, p) ==
    \E i \in 0..(Len(s) - Len(p)) : SubSeq(s, i + 1, i + Len(p)) = p

\* KelvinRange(min, max), and None where a kelvin range is expected
KelvinRange(min, max) == <<min, max>>
NoKelvin == <<>>
\* Features(...), with the arguments the detector passes; dual_head keeps
\* its default
Features(color, brightness, color_temp, effect, fan, fan_reverse, fan_breeze_mode) ==
    [color |-> color, brightness |-> brightness, color_temp |-> color_temp,
     effect |-> effect, dual_head |-> FALSE, fan |-> fan,
     fan_reverse |-> fan_reverse, fan_breeze_mode |-> fan_breeze_mode]
\* BulbType(bulb_type=, name=, features=, kelvin_range=): fw_version and
\* white_channels keep the defaults of the dataclass
BulbType(bulb_type, name, features, kelvin_range) ==
    [bulb_type |-> bulb_type, name |-> name, features |-> features,
     kelvin_range |-> kelvin_range, fw_version |-> "", white_channels |-> 1]

\* the ordered pattern list
_MODULE_PATTERNS == <<
    [pattern |-> <<"F", "A", "N", "D", "I", "M">>, bulb_class |-> "FANDIM",
     features |-> Features(FALSE, TRUE, FALSE, TRUE, TRUE, TRUE, TRUE),
     kelvin |-> NoKelvin],
    [pattern |-> <<"S", "O", "C", "K", "E", "T">>, bulb_class |-> "SOCKET",
     features |-> Features(FALSE, FALSE, FALSE, FALSE, FALSE, FALSE, FALSE),
     kelvin |-> NoKelvin],
    [pattern |-> <<"R", "G", "B", "W", "W">>, bulb_class |-> "RGB",
     features |-> Features(TRUE, TRUE, TRUE, TRUE, FALSE, FALSE, FALSE),
     kelvin |-> KelvinRange(2200, 6500)],
    [pattern |-> <<"R", "G", "B", "W">>, bulb_class |-> "RGB",
     features |-> Features(TRUE, TRUE, TRUE, TRUE, FALSE, FALSE, FALSE),
     kelvin |-> KelvinRange(2200, 6500)],
    [pattern |-> <<"R", "G", "B">>, bulb_class |-> "RGB",
     features |-> Features(TRUE, TRUE, FALSE, TRUE, FALSE, FALSE, FALSE),
     kelvin |-> NoKelvin],
    [pattern |-> <<"T", "W">>, bulb_class |-> "TW",
     features |-> Features(FALSE, TRUE, TRUE, TRUE, FALSE, FALSE, FALSE),
     kelvin |-> KelvinRange(2700, 6500)],
    [pattern |-> <<"D", "W">>, bulb_class |-> "DW",
     features |-> Features(FALSE, TRUE, FALSE, TRUE, FALSE, FALSE, FALSE),
     kelvin |-> NoKelvin],
    [pattern |-> <<"S", "H", "T", "W">>, bulb_class |-> "TW",
     features |-> Features(FALSE, TRUE, TRUE, TRUE, FALSE, FALSE, FALSE),
     kelvin |-> KelvinRange(2700, 6500)],
    [pattern |-> <<"D", "H", "T", "W">>, bulb_class |-> "TW",
     features |-> Features(FALSE, TRUE, TRUE, TRUE, FALSE, FALSE, FALSE),
     kelvin |-> KelvinRange(2700, 6500)],
    [pattern |-> <<"S", "H", "R", "G", "B">>, bulb_class |-> "RGB",
     features |-> Features(TRUE, TRUE, TRUE, TRUE, FALSE, FALSE, FALSE),
     kelvin |-> KelvinRange(2200, 6500)],
    [pattern |-> <<"D", "H", "R", "G", "B">>, bulb_class |-> "RGB",
     features |-> Features(TRUE, TRUE, TRUE, TRUE, FALSE, FALSE, FALSE),
     kelvin |-> KelvinRange(2200, 6500)] >>

\* the table of exact module names
_KNOWN_MODULES == <<
    [name |-> <<"E", "S", "P", "0", "1", "_", "S", "H", "R", "G", "B", "1", "C", "_", "3", "1">>,
     bulb_class |-> "RGB", kelvin |-> KelvinRange(2200, 6500)],
    [name |-> <<"E", "S", "P", "0", "1", "_", "S", "H", "R", "G", "B", "3", "_", "0", "1", "A", "B", "I">>,
     bulb_class |-> "RGB", kelvin |-> KelvinRange(2200, 6500)],
    [name |-> <<"E", "S", "P", "0", "1", "_", "S", "H", "D", "W", "1", "_", "3", "1">>,
     bulb_class |-> "DW", kelvin |-> NoKelvin],
    [name |-> <<"E", "S", "P", "0", "1", "_", "S", "H", "T", "W", "1", "C", "_", "3", "1">>,
     bulb_class |-> "TW", kelvin |-> KelvinRange(2700, 6500)],
    [name |-> <<"E", "S", "P", "0", "3", "_", "S", "H", "R", "G", "B", "1", "C", "_", "0", "1">>,
     bulb_class |-> "RGB", kelvin |-> KelvinRange(2200, 6500)],
    [name |-> <<"E", "S", "P", "0", "3", "_", "S", "H", "R", "G", "B", "1", "W", "_", "0", "1", "A", "B", "I">>,
     bulb_class |-> "RGB", kelvin |-> KelvinRange(2200, 6500)],
    [name |-> <<"E", "S", "P", "0", "3", "_", "S", "H", "R", "G", "B", "P", "_", "3", "1", "A", "B", "I">>,
     bulb_class |-> "RGB", kelvin |-> KelvinRange(2200, 6500)],
    [name |-> <<"E", "S", "P", "0", "6", "_", "S", "H", "D", "W", "1", "_", "0", "1">>,
     bulb_class |-> "DW", kelvin |-> NoKelvin],
    [name |-> <<"E", "S", "P", "0", "6", "_", "S", "H", "D", "W", "9", "_", "0", "1">>,
     bulb_class |-> "DW", kelvin |-> NoKelvin],
    [name |-> <<"E", "S", "P", "0", "6", "_", "S", "H", "T", "W", "1", "_", "0", "1">>,
     bulb_class |-> "TW", kelvin |-> KelvinRange(2700, 6500)],
    [name |-> <<"E", "S", "P", "0", "6", "_", "S", "H", "T", "W", "9", "_", "0", "1">>,
     bulb_class |-> "TW", kelvin |-> KelvinRange(2700, 6500)],
    [name |-> <<"E", "S", "P", "1", "4", "_", "S", "H", "R", "G", "B", "1", "C", "_", "0", "1", "A", "B", "I">>,
     bulb_class |-> "RGB", kelvin |-> KelvinRange(2200, 6500)],
    [name |-> <<"E", "S", "P", "1", "5", "_", "S", "H", "R", "G", "B", "1", "C", "_", "0", "1", "A", "B", "I">>,
     bulb_class |-> "RGB", kelvin |-> KelvinRange(2200, 6500)],
    [name |-> <<"E", "S", "P", "1", "7", "_", "S", "H", "R", "G", "B", "9", "W", "_", "0", "1", "A", "B", "I">>,
     bulb_class |-> "RGB", kelvin |-> KelvinRange(2200, 6500)],
    [name |-> <<"E", "S", "P", "2", "0", "_", "S", "H", "R", "G", "B", "9", "W", "_", "0", "1", "A", "B", "I">>,
     bulb_class |-> "RGB", kelvin |-> KelvinRange(2200, 6500)],
    [name |-> <<"E", "S", "P", "2", "1", "_", "S", "H", "T", "W", "9", "_", "0", "1">>,
     bulb_class |-> "TW", kelvin |-> KelvinRange(2700, 6500)],
    [name |-> <<"E", "S", "P", "5", "6", "_", "S", "H", "T", "W", "1", "1", "_", "0", "1">>,
     bulb_class |-> "TW", kelvin |-> KelvinRange(2700, 6500)] >>

\* _features_for_class
_features_for_class(bulb_class) ==
    CASE bulb_class = "RGB" ->
            Features(TRUE, TRUE, TRUE, TRUE, FALSE, FALSE, FALSE)
      [] bulb_class = "TW" ->
            Features(FALSE, TRUE, TRUE, TRUE, FALSE, FALSE, FALSE)
      [] bulb_class = "DW" ->
            Features(FALSE, TRUE, FALSE, TRUE, FALSE, FALSE, FALSE)
      [] bulb_class = "SOCKET" ->
            Features(FALSE, FALSE, FALSE, FALSE, FALSE, FALSE, FALSE)
      [] bulb_class = "FANDIM" ->
            Features(FALSE, TRUE, FALSE, TRUE, TRUE, TRUE, TRUE)

\* a white_range argument: the keys of the dict and the values under them;
\* None and {} are the dict without keys
WhiteRange(keys, min, max) == [keys |-> keys, min |-> min, max |-> max]
NoWhiteRange == WhiteRange({}, 0, 0)
\* if white_range and "min" in white_range and "max" in white_range:
\*     kelvin = KelvinRange(white_range["min"], white_range["max"])
OverrideKelvin(kelvin, wr) ==
    IF wr.keys # {} /\ "min" \in wr.keys /\ "max" \in wr.keys
    THEN KelvinRange(wr.min, wr.max)
    ELSE kelvin

\* the entries of the exact table under name, and the patterns name_upper
\* contains, by position
KnownEntries(name) ==
    {i \in 1..Len(_KNOWN_MODULES) : _KNOWN_MODULES[i].name = name}
MatchingPatterns(name_upper) ==
    {i \in 1..Len(_MODULE_PATTERNS) :
        Contains(name_upper, _MODULE_PATTERNS[i].pattern)}

\* detect_bulb_type(module_name, white_range)
detect_bulb_type(name, wr) ==
    LET name_upper == Upper(name)
    IN  IF KnownEntries(name) # {}
        THEN LET e == _KNOWN_MODULES[Least(KnownEntries(name))]
             IN  BulbType(e.bulb_class, name, _features_for_class(e.bulb_class),
                          OverrideKelvin(e.kelvin, wr))
        ELSE IF MatchingPatterns(name_upper) # {}
        THEN LET e == _MODULE_PATTERNS[Least(MatchingPatterns(name_upper))]
             IN  BulbType(e.bulb_class, name,
                          Features(e.features.color, e.features.brightness,
                                   e.features.color_temp, e.features.effect,
                                   e.features.fan, e.features.fan_reverse,
                                   e.features.fan_breeze_mode),
                          OverrideKelvin(e.kelvin, wr))
        ELSE BulbType("RGB", name,
                      Features(TRUE, TRUE, TRUE, TRUE, FALSE, FALSE, FALSE),
                      KelvinRange(2200, 6500))

\* module names devices report: entries of the exact table, names that only
\* the patterns match, in either case, and names nothing matches
ModuleNames == {
    <<"E", "S", "P", "0", "1", "_", "S", "H", "R", "G", "B", "3", "_", "0", "1", "A", "B", "I">>,
    <<"E", "S", "P", "0", "1", "_", "S", "H", "D", "W", "1", "_", "3", "1">>,
    <<"E", "S", "P", "0", "6", "_", "S", "H", "T", "W", "1", "_", "0", "1">>,
    <<"e", "s", "p", "0", "1", "_", "s", "h", "r", "g", "b", "3", "_", "0", "1", "a", "b", "i">>,
    <<"E", "S", "P", "0", "3", "_", "F", "A", "N", "D", "I", "M", "S", "_", "3", "1">>,
    <<"E", "S", "P", "1", "0", "_", "S", "O", "C", "K", "E", "T", "_", "0", "6">>,
    <<"E", "S", "P", "2", "4", "_", "S", "H", "R", "G", "B", "W", "W", "_", "0", "1">>,
    <<"E", "S", "P", "2", "2", "_", "S", "H", "R", "G", "B", "W", "_", "0", "1">>,
    <<"E", "S", "P", "2", "5", "_", "S", "H", "R", "G", "B", "2", "_", "0", "1">>,
    <<"E", "S", "P", "0", "5", "_", "S", "H", "T", "W", "_", "2", "1">>,
    <<"E", "S", "P", "0", "5", "_", "S", "H", "D", "W", "_", "2", "1">>,
    <<"E", "S", "P", "2", "0", "_", "D", "H", "T", "W", "1", "_", "0", "1">>,
    <<"E", "S", "P", "2", "0", "_", "D", "H", "R", "G", "B", "1", "S", "_", "0", "1">>,
    <<"E", "S", "P", "2", "2", "_", "R", "G", "B", "_", "0", "1">>,
    <<"E", "S", "P", "0", "5", "_", "T", "W", "_", "2", "1">>,
    <<"E", "S", "P", "0", "5", "_", "D", "W", "_", "2", "1">>,
    <<"E", "S", "P", "2", "1", "_", "R", "G", "B", "W", "W", "_", "0", "1">>,
    <<"E", "S", "P", "2", "1", "_", "R", "G", "B", "W", "_", "0", "1">>,
    <<"e", "s", "p", "2", "2", "_", "s", "h", "r", "g", "b", "w", "_", "0", "1">>,
    <<>>,
    <<"E", "S", "P", "9", "9", "_", "X", "Y", "Z", "_", "0", "1">> }
\* the whiteRange values devices report
WhiteRanges ==
    {NoWhiteRange, WhiteRange({"min", "max"}, 2700, 5000),
     WhiteRange({"min", "max"}, 2200, 6500), WhiteRange({"min"}, 2700, 0)}
\* None, where a BulbType is expected
NoBulbType == [bulb_type |-> "None"]

\* BulbType.from_module_name(module_name, white_range)
from_module_name ==
    /\ d_pc = "called"
    /\ d_pc' = "returned"
    /\ detected' = detect_bulb_type(module_name, white_range)
    /\ UNCHANGED <<module_name, white_range, capVars, buildVars, clientVars, sendVars,
                   pushVars, discVars, facadeVars>>

\* no call of the detector
DetectIdle ==
    /\ d_pc = "idle"
    /\ module_name = <<>>
    /\ white_range = NoWhiteRange
    /\ detected = NoBulbType
\* a call of the detector with any of the arguments above
DetectInit ==
    /\ d_pc = "called"
    /\ module_name \in ModuleNames
    /\ white_range \in WhiteRanges
    /\ detected = NoBulbType

(***************************************************************************)
(* wizlight.get_bulbtype and wizlight.get_power (bulb.py): the capability  *)
(* descriptor and the power reading of the facade's device.                *)
(***************************************************************************)
\* result.moduleName of the getSystemConfig responses
ConfigModuleNames ==
    {<<"E", "S", "P", "0", "1", "_", "S", "H", "R", "G", "B", "3", "_", "0",
       "1", "A", "B", "I">>,
     <<"E", "S", "P", "2", "4", "_", "S", "H", "R", "G", "B", "W", "W", "_",
       "0", "1">>,
     <<"e", "s", "p", "2", "2", "_", "s", "h", "r", "g", "b", "w", "_", "0",
       "1">>,
     <<"E", "S", "P", "0", "6", "_", "S", "H", "T", "W", "1", "_", "0", "1">>}
\* the results of getSystemConfig responses
SystemConfigs ==
    [moduleName : ConfigModuleNames,
     whiteRange : {NoWhiteRange, WhiteRange({"min", "max"}, 2700, 5000)},
     fwVersion : {"1.30.0"}, mac : ConfigMacs]
\* {}, read with the defaults of get_bulbtype: config.get("moduleName", ""),
\* config.get("whiteRange"), config.get("fwVersion", ""), config.get("mac")
EmptyConfig ==
    [moduleName |-> <<>>, whiteRange |-> NoWhiteRange, fwVersion |-> "",
     mac |-> <<>>]
\* the mark of a response without the key "result"
AbsentConfig ==
    [moduleName |-> <<"absent">>, whiteRange |-> NoWhiteRange,
     fwVersion |-> "", mac |-> <<>>]
\* None, as the value of wizlight._system_config
NoConfig == [moduleName |-> <<"None">>]
\* getSystemConfig responses
SystemConfigResponses == [result : SystemConfigs \cup {AbsentConfig}]

\* a "w" of a getPower result: an int or a float of v tenths of a watt, a
\* string that float() parses or one it rejects, null, or no "w" at all
Watts(t, v) == [t |-> t, v |-> v]
NoWatts == Watts("None", 0)
AbsentWatts == Watts("absent", 0)
PowerValues ==
    {Watts("int", 0), Watts("int", 80), Watts("float", 85),
     Watts("str", 85), Watts("badstr", 0), NoWatts, AbsentWatts}
\* getPower responses: result is a dict, is missing, or is not a dict
PowerResponses ==
    [result : {"dict"}, w : PowerValues]
        \cup {[result |-> "absent", w |-> AbsentWatts],
              [result |-> "list", w |-> AbsentWatts]}
\* how an awaited send of getPower ends: with a response, or raising
\* WizLightTimeOutError, WizLightCommandError or an error of the socket
PowerOutcomes ==
    {"response", "WizLightTimeOutError", "WizLightCommandError", "OSError"}
\* the response of a send that raised
NoPowerResponse == [result |-> "None", w |-> AbsentWatts]

\* what get_power returned (None, or watts) or raised
Returned(how, watts) == [how |-> how, watts |-> watts]
NoReturn == Returned("none", NoWatts)

\* response.get("result", {})
ConfigOf(response) ==
    IF response.result = AbsentConfig THEN EmptyConfig ELSE response.result

\* if "RGBWW" in name_upper: 2 / elif "RGBW" in name_upper: 1; otherwise
\* white_channels keeps the value it has
WhiteChannels(name_upper, current) ==
    IF Contains(name_upper, <<"R", "G", "B", "W", "W">>) THEN 2
    ELSE IF Contains(name_upper, <<"R", "G", "B", "W">>) THEN 1
    ELSE current

\* the BulbType get_bulbtype builds from config
BulbTypeOf(config) ==
    LET bt == detect_bulb_type(config.moduleName, config.whiteRange)
    IN  [bt EXCEPT !.fw_version = config.fwVersion,
                   !.white_channels =
                       WhiteChannels(Upper(config.moduleName),
                                     bt.white_channels)]

\* await bulb.get_bulbtype(), to the await of the getSystemConfig send of
\* get_system_config
get_bulbtype ==
    /\ ucall.op = "none"
    /\ closes = 0
    /\ client' = "open"
    /\ ucall' = [op |-> "get_bulbtype", pc |-> "get_system_config"]
    /\ flast' = FOp("send", 0, <<>>, "getSystemConfig")
    /\ UNCHANGED <<pushVars, client_given, owns_client, f_state, f_mac,
                   push_callback, push_task, tasks, starts, closes, capVars,
                   detectVars, buildVars, clientVars, sendVars, discVars>>

\* the getSystemConfig send ends: with response, or raising
get_bulbtype_done(res, response) ==
    /\ ucall = [op |-> "get_bulbtype", pc |-> "get_system_config"]
    /\ ucall' = [op |-> "none", pc |-> "none"]
    /\ IF res = "response"
       THEN /\ _system_config' = ConfigOf(response)
            /\ _bulbtype' = BulbTypeOf(ConfigOf(response))
            /\ f_mac' = CacheMac(f_mac, ConfigOf(response).mac)
            /\ UNCHANGED returned
            /\ flast' = FOp("get_bulbtype_done", 0, <<>>, response)
       ELSE /\ flast' = FOp("get_bulbtype_raised", 0, <<>>, "none")
            /\ UNCHANGED <<_system_config, _bulbtype, f_mac, returned>>
    /\ UNCHANGED <<pushVars, client_given, owns_client, client, f_state,
                   push_callback, push_task, tasks, starts, closes,
                   power_monitoring, detectVars, buildVars, clientVars, sendVars,
                   discVars>>

\* an except clause that lets the errors of the client through
CatchesNothing(exc) == FALSE
\* except Exception
GetPowerCatches(exc) == exc # "CancelledError"

\* float(watts): the float, or ValueError
Float(w) ==
    IF w.t \in {"int", "float", "str"} THEN Watts("float", w.v)
    ELSE Watts("ValueError", 0)

\* the body of the try of get_power after the send, on response: the flag,
\* what is returned and what is raised
PowerBody(response) ==
    IF response.result = "list"
    THEN [flag |-> "None", watts |-> NoWatts, raised |-> "AttributeError"]
    ELSE LET w == IF response.result = "absent" \/ response.w = AbsentWatts
                  THEN NoWatts ELSE response.w
         IN  IF w # NoWatts
             THEN IF Float(w).t = "ValueError"
                  THEN [flag |-> "True", watts |-> NoWatts,
                        raised |-> "ValueError"]
                  ELSE [flag |-> "True", watts |-> Float(w),
                        raised |-> "none"]
             ELSE [flag |-> "False", watts |-> NoWatts, raised |-> "none"]

\* await bulb.get_power(), to the await of its getPower send
get_power ==
    /\ ucall.op = "none"
    /\ closes = 0
    /\ client' = "open"
    /\ ucall' = [op |-> "get_power", pc |-> "get_power"]
    /\ flast' = FOp("send", 0, <<>>, "getPower")
    /\ UNCHANGED <<pushVars, client_given, owns_client, f_state, f_mac,
                   push_callback, push_task, tasks, starts, closes, capVars,
                   detectVars, buildVars, clientVars, sendVars, discVars>>

\* the getPower send ends: with response, or raising res
get_power_done(res, response) ==
    /\ ucall = [op |-> "get_power", pc |-> "get_power"]
    /\ ucall' = [op |-> "none", pc |-> "none"]
    /\ res = "response" <=> response # NoPowerResponse
    /\ LET body == IF res = "response" THEN PowerBody(response)
                   ELSE [flag |-> power_monitoring, watts |-> NoWatts,
                         raised |-> res]
       IN  IF body.raised = "none"
           THEN /\ power_monitoring' = body.flag
                /\ returned' = Returned("value", body.watts)
           ELSE IF GetPowerCatches(body.raised)
           THEN /\ power_monitoring' = "False"
                /\ returned' = Returned("value", NoWatts)
           ELSE /\ power_monitoring' = body.flag
                /\ returned' = Returned(body.raised, NoWatts)
    /\ flast' = FOp("get_power_done", 0, <<>>, [res |-> res, response |-> response])
    /\ UNCHANGED <<pushVars, client_given, owns_client, client, f_state,
                   f_mac, push_callback, push_task, tasks, starts, closes,
                   _bulbtype, _system_config, detectVars, buildVars, clientVars,
                   sendVars, discVars>>

\* the task awaiting get_power() is cancelled during the send
get_power_cancelled ==
    /\ ucall = [op |-> "get_power", pc |-> "get_power"]
    /\ ucall' = [op |-> "none", pc |-> "none"]
    /\ IF GetPowerCatches("CancelledError")
       THEN /\ power_monitoring' = "False"
            /\ returned' = Returned("value", NoWatts)
       ELSE /\ returned' = Returned("CancelledError", NoWatts)
            /\ UNCHANGED power_monitoring
    /\ flast' = FOp("get_power_cancelled", 0, <<>>, "none")
    /\ UNCHANGED <<pushVars, client_given, owns_client, client, f_state,
                   f_mac, push_callback, push_task, tasks, starts, closes,
                   _bulbtype, _system_config, detectVars, buildVars, clientVars,
                   sendVars, discVars>>

\* wizlight.__init__: nothing cached, nothing returned
CapInit ==
    /\ _bulbtype = NoBulbType
    /\ _system_config = NoConfig
    /\ power_monitoring = "None"
    /\ returned = NoReturn

(***************************************************************************)
(* PilotBuilder (pilot.py) and the scene registry (effects.py). An argument *)
(* is a value with its Python type, so that the isinstance test of _clamp   *)
(* and the truth test of "r or 0" are computed.                             *)
(***************************************************************************)
\* a Python value: None, an int v, a float equal to v, or a str of the
\* characters s
Value(t, v, s) == [t |-> t, v |-> v, s |-> s]
None == Value("None", 0, <<>>)
IntOf(v) == Value("int", v, <<>>)
FloatOf(v) == Value("float", v, <<>>)
Str(s) == Value("str", 0, s)
\* a tuple argument, or None in its place
Tuple(items) == [t |-> "tuple", items |-> items]
NoTuple == [t |-> "None", items |-> <<>>]
\* bool(value)
IsTrue(value) ==
    CASE value.t = "None" -> FALSE
      [] value.t \in {"int", "float"} -> value.v # 0
      [] value.t = "str" -> value.s # <<>>

\* the scene registry
SCENES == <<
    [id |-> 1, name |-> <<"O", "c", "e", "a", "n">>],
    [id |-> 2, name |-> <<"R", "o", "m", "a", "n", "c", "e">>],
    [id |-> 3, name |-> <<"S", "u", "n", "s", "e", "t">>],
    [id |-> 4, name |-> <<"P", "a", "r", "t", "y">>],
    [id |-> 5, name |-> <<"F", "i", "r", "e", "p", "l", "a", "c", "e">>],
    [id |-> 6, name |-> <<"C", "o", "z", "y">>],
    [id |-> 7, name |-> <<"F", "o", "r", "e", "s", "t">>],
    [id |-> 8, name |-> <<"P", "a", "s", "t", "e", "l", " ", "c", "o", "l",
         "o", "r", "s">>],
    [id |-> 9, name |-> <<"W", "a", "k", "e", "-", "u", "p">>],
    [id |-> 10, name |-> <<"B", "e", "d", "t", "i", "m", "e">>],
    [id |-> 11, name |-> <<"W", "a", "r", "m", " ", "w", "h", "i", "t", "e">>],
    [id |-> 12, name |-> <<"D", "a", "y", "l", "i", "g", "h", "t">>],
    [id |-> 13, name |-> <<"C", "o", "o", "l", " ", "w", "h", "i", "t", "e">>],
    [id |-> 14, name |-> <<"N", "i", "g", "h", "t", " ", "l", "i", "g", "h",
         "t">>],
    [id |-> 15, name |-> <<"F", "o", "c", "u", "s">>],
    [id |-> 16, name |-> <<"R", "e", "l", "a", "x">>],
    [id |-> 17, name |-> <<"T", "r", "u", "e", " ", "c", "o", "l", "o", "r",
         "s">>],
    [id |-> 18, name |-> <<"T", "V", " ", "t", "i", "m", "e">>],
    [id |-> 19, name |-> <<"P", "l", "a", "n", "t", "g", "r", "o", "w", "t",
         "h">>],
    [id |-> 20, name |-> <<"S", "p", "r", "i", "n", "g">>],
    [id |-> 21, name |-> <<"S", "u", "m", "m", "e", "r">>],
    [id |-> 22, name |-> <<"F", "a", "l", "l">>],
    [id |-> 23, name |-> <<"D", "e", "e", "p", " ", "d", "i", "v", "e">>],
    [id |-> 24, name |-> <<"J", "u", "n", "g", "l", "e">>],
    [id |-> 25, name |-> <<"M", "o", "j", "i", "t", "o">>],
    [id |-> 26, name |-> <<"C", "l", "u", "b">>],
    [id |-> 27, name |-> <<"C", "h", "r", "i", "s", "t", "m", "a", "s">>],
    [id |-> 28, name |-> <<"H", "a", "l", "l", "o", "w", "e", "e", "n">>],
    [id |-> 29, name |-> <<"C", "a", "n", "d", "l", "e", "l", "i", "g", "h",
         "t">>],
    [id |-> 30, name |-> <<"G", "o", "l", "d", "e", "n", " ", "w", "h", "i",
         "t", "e">>],
    [id |-> 31, name |-> <<"P", "u", "l", "s", "e">>],
    [id |-> 32, name |-> <<"S", "t", "e", "a", "m", "p", "u", "n", "k">>],
    [id |-> 33, name |-> <<"D", "i", "w", "a", "l", "i">>],
    [id |-> 34, name |-> <<"W", "h", "i", "t", "e">>],
    [id |-> 35, name |-> <<"A", "l", "a", "r", "m">>],
    [id |-> 36, name |-> <<"S", "n", "o", "w", "y", " ", "s", "k", "y">>],
    [id |-> 1000, name |-> <<"R", "h", "y", "t", "h", "m">>] >>

\* the ids of SCENES
SceneIds == {SCENES[i].id : i \in 1..Len(SCENES)}
\* a lookup that compares the names as they are written
get_id_exact(name) ==
    IF \E i \in 1..Len(SCENES) : SCENES[i].name = name
    THEN SCENES[CHOOSE i \in 1..Len(SCENES) : SCENES[i].name = name].id
    ELSE 0
\* _NAME_TO_ID.get(name.lower()), with _NAME_TO_ID = {name.lower(): id};
\* 0 is None
get_id_from_scene_name(name) ==
    IF \E i \in 1..Len(SCENES) : LowerCase(SCENES[i].name) = LowerCase(name)
    THEN SCENES[CHOOSE i \in 1..Len(SCENES) :
                    LowerCase(SCENES[i].name) = LowerCase(name)].id
    ELSE 0

\* the keys of a params dict and the values under them (0 under a key the
\* dict lacks), or the exception the constructor raised and the argument
\* its message names
Params(raised, about, keys, state) ==
    [raised |-> raised, about |-> about, keys |-> keys, state |-> state,
     sceneId |-> 0, r |-> 0, g |-> 0, b |-> 0, w |-> 0, c |-> 0, temp |-> 0,
     dimming |-> 0, speed |-> 0, ratio |-> 0]
NoParams == [raised |-> "none"]
\* raise WizLightInvalidParameter(...)
Raise(about) == Params("WizLightInvalidParameter", about, {}, FALSE)
\* what a step that computes a value comes to: the value, or an exception
Ok(v) == [ok |-> TRUE, v |-> v, about |-> "none"]
Invalid(about) == [ok |-> FALSE, v |-> 0, about |-> about]

\* a clamp that returns an int as it is
_clamp_unbounded(value, min_val, max_val, name) ==
    IF value.t # "int" THEN Invalid(name) ELSE Ok(value.v)
\* _clamp
_clamp(value, min_val, max_val, name) ==
    IF value.t # "int" THEN Invalid(name)
    ELSE Ok(IF (IF max_val < value.v THEN max_val ELSE value.v) < min_val
            THEN min_val
            ELSE (IF max_val < value.v THEN max_val ELSE value.v))

\* a resolution that compares the names as they are written
_resolve_scene_exact(scene) ==
    IF scene.t = "int"
    THEN IF scene.v \notin SceneIds THEN Invalid("scene") ELSE Ok(scene.v)
    ELSE IF get_id_exact(scene.s) = 0 THEN Invalid("scene")
         ELSE Ok(get_id_exact(scene.s))
\* _resolve_scene, for an int or a str
_resolve_scene(scene) ==
    IF scene.t = "int"
    THEN IF scene.v \notin SceneIds THEN Invalid("scene") ELSE Ok(scene.v)
    ELSE IF get_id_from_scene_name(scene.s) = 0 THEN Invalid("scene")
         ELSE Ok(get_id_from_scene_name(scene.s))

\* self._params[key] = <a step>: the dict with the key, or the exception of
\* the step; nothing more happens once an exception is raised
Put(p, key, step) ==
    IF p.raised # "none" THEN p
    ELSE IF ~step.ok THEN Raise(step.about)
    ELSE [[p EXCEPT !.keys = @ \cup {key}] EXCEPT ![key] = step.v]
\* a statement that runs under a condition
When(cond, p, q) == IF cond THEN q ELSE p

\* r or 0
OrZero(value) == IF IsTrue(value) THEN value ELSE IntOf(0)

\* _set_rgbw
_set_rgbw(p, rgbw) ==
    IF Len(rgbw.items) < 3 THEN Raise("rgbw")
    ELSE LET p1 == Put(p, "r", _clamp(rgbw.items[1], 0, 255, "r"))
             p2 == Put(p1, "g", _clamp(rgbw.items[2], 0, 255, "g"))
             p3 == Put(p2, "b", _clamp(rgbw.items[3], 0, 255, "b"))
         IN  IF Len(rgbw.items) > 3
             THEN Put(p3, "w", _clamp(rgbw.items[4], 0, 255, "warm_white"))
             ELSE p3
\* _set_rgbww
_set_rgbww(p, rgbww) ==
    IF Len(rgbww.items) < 3 THEN Raise("rgbww")
    ELSE LET p1 == Put(p, "r", _clamp(rgbww.items[1], 0, 255, "r"))
             p2 == Put(p1, "g", _clamp(rgbww.items[2], 0, 255, "g"))
             p3 == Put(p2, "b", _clamp(rgbww.items[3], 0, 255, "b"))
             p4 == IF Len(rgbww.items) > 3
                   THEN Put(p3, "w",
                            _clamp(rgbww.items[4], 0, 255, "warm_white"))
                   ELSE p3
         IN  IF Len(rgbww.items) > 4
             THEN Put(p4, "c", _clamp(rgbww.items[5], 0, 255, "cold_white"))
             ELSE p4

\* a constructor that goes on after state=False
GoesOn(state) == FALSE
\* if not state: return
ReturnsEarly(state) == ~state

\* a chain that tests colortemp first
ColortempFirst(a) ==
    IF a.colortemp # None THEN "colortemp"
    ELSE IF a.scene # None THEN "scene"
    ELSE IF a.rgbww # NoTuple THEN "rgbww"
    ELSE IF a.rgbw # NoTuple THEN "rgbw"
    ELSE IF a.r # None \/ a.g # None \/ a.b # None THEN "rgb"
    ELSE "none"
\* the branch the if / elif chain of the constructor takes
Mode(a) ==
    IF a.scene # None THEN "scene"
    ELSE IF a.rgbww # NoTuple THEN "rgbww"
    ELSE IF a.rgbw # NoTuple THEN "rgbw"
    ELSE IF a.r # None \/ a.g # None \/ a.b # None THEN "rgb"
    ELSE IF a.colortemp # None THEN "colortemp"
    ELSE "none"

\* the branch of r, g, b, warm_white and cold_white
SetRgb(p, a) ==
    LET p1 == Put(p, "r", _clamp(OrZero(a.r), 0, 255, "r"))
        p2 == Put(p1, "g", _clamp(OrZero(a.g), 0, 255, "g"))
        p3 == Put(p2, "b", _clamp(OrZero(a.b), 0, 255, "b"))
        p4 == When(a.warm_white # None, p3,
                   Put(p3, "w", _clamp(a.warm_white, 0, 255, "warm_white")))
    IN  When(a.cold_white # None, p4,
             Put(p4, "c", _clamp(a.cold_white, 0, 255, "cold_white")))

\* PilotBuilder(**a): self._params, or the exception raised
PilotBuilder(a) ==
    LET p0 == Params("none", "none", {"state"}, a.state)
        p1 == CASE Mode(a) = "scene" ->
                      Put(p0, "sceneId", _resolve_scene(a.scene))
                [] Mode(a) = "rgbww" -> _set_rgbww(p0, a.rgbww)
                [] Mode(a) = "rgbw" -> _set_rgbw(p0, a.rgbw)
                [] Mode(a) = "rgb" -> SetRgb(p0, a)
                [] Mode(a) = "colortemp" ->
                      Put(p0, "temp",
                          _clamp(a.colortemp, 1000, 10000, "colortemp"))
                [] Mode(a) = "none" -> p0
        p2 == When(a.brightness # None, p1,
                   Put(p1, "dimming",
                       _clamp(a.brightness, 10, 255, "brightness")))
        p3 == When(a.speed # None, p2,
                   Put(p2, "speed", _clamp(a.speed, 1, 200, "speed")))
        p4 == When(a.ratio # None, p3,
                   Put(p3, "ratio", _clamp(a.ratio, 0, 100, "ratio")))
    IN  IF ReturnsEarly(a.state) THEN p0 ELSE p4

\* arguments of PilotBuilder(...), in five families. Every argument a
\* family does not vary is left out of the call (None; state is True).
Defaults ==
    [state |-> TRUE, brightness |-> None, r |-> None, g |-> None,
     b |-> None, rgbw |-> NoTuple, rgbww |-> NoTuple, colortemp |-> None,
     scene |-> None, speed |-> None, ratio |-> None, warm_white |-> None,
     cold_white |-> None]
\* modes given together, on and off
PrecedenceArgs ==
    [state : BOOLEAN,
     brightness : {None, IntOf(128), FloatOf(128)},
     r : {None, IntOf(10)}, g : {None, IntOf(0), IntOf(20)}, b : {None, IntOf(30)},
     rgbw : {NoTuple, Tuple(<<IntOf(1), IntOf(2), IntOf(3), IntOf(4)>>),
             Tuple(<<IntOf(1), IntOf(2)>>)},
     rgbww : {NoTuple, Tuple(<<IntOf(5), IntOf(6), IntOf(7), IntOf(8), IntOf(9)>>)},
     colortemp : {None, IntOf(3000)},
     scene : {None, IntOf(5), IntOf(99), Str(<<"F", "i", "r", "e", "p", "l", "a",
         "c", "e">>), Str(<<"n", "o", "p", "e">>)},
     speed : {None}, ratio : {None},
     warm_white : {None, IntOf(40)}, cold_white : {None}]
\* r, g, b, warm_white and cold_white of every type, in and out of range
ChannelValues ==
    {None, IntOf(-5), IntOf(0), IntOf(255), IntOf(300), FloatOf(0), FloatOf(7),
     Str(<<>>)}
ChannelArgs ==
    {[Defaults EXCEPT !.r = r, !.g = g, !.b = b, !.warm_white = w,
                      !.cold_white = c] :
        r \in ChannelValues, g \in ChannelValues \ {Str(<<>>)},
        b \in {None, IntOf(0), IntOf(256), FloatOf(0)},
        w \in {None, IntOf(-1), IntOf(128), IntOf(256), FloatOf(7)},
        c \in {None, IntOf(0), IntOf(300), Str(<<"9">>)}}
\* colortemp, brightness, speed and ratio around their bounds
LevelArgs ==
    {[Defaults EXCEPT !.colortemp = t, !.brightness = d, !.speed = s,
                      !.ratio = q] :
        t \in {None, IntOf(999), IntOf(1000), IntOf(4000), IntOf(10000), IntOf(10001),
               FloatOf(4000)},
        d \in {None, IntOf(-1), IntOf(9), IntOf(10), IntOf(255), IntOf(256),
               FloatOf(0), Str(<<"1", "2", "8">>)},
        s \in {None, IntOf(0), IntOf(1), IntOf(200), IntOf(201), FloatOf(100)},
        q \in {None, IntOf(-1), IntOf(0), IntOf(100), IntOf(101), FloatOf(50)}}
\* rgbw and rgbww tuples of every length, with items of every type
TupleValues ==
    {Tuple(<<>>), Tuple(<<IntOf(1), IntOf(2)>>),
     Tuple(<<IntOf(-1), IntOf(128), IntOf(256)>>),
     Tuple(<<IntOf(0), IntOf(0), IntOf(0), IntOf(300)>>),
     Tuple(<<IntOf(1), IntOf(2), IntOf(3), IntOf(4), IntOf(-7)>>),
     Tuple(<<IntOf(1), IntOf(2), IntOf(3), IntOf(4), IntOf(5), IntOf(6)>>),
     Tuple(<<FloatOf(0), IntOf(2), IntOf(3)>>),
     Tuple(<<IntOf(1), IntOf(2), IntOf(3), FloatOf(4)>>),
     Tuple(<<IntOf(1), IntOf(2), IntOf(3), IntOf(4), Str(<<"5">>)>>)}
TupleArgs ==
    {[Defaults EXCEPT !.rgbw = x, !.rgbww = y, !.brightness = d] :
        x \in TupleValues \cup {NoTuple}, y \in TupleValues \cup {NoTuple},
        d \in {None, IntOf(300)}}
\* scenes by id and by name
SceneValues ==
    {IntOf(0), IntOf(1), IntOf(36), IntOf(37), IntOf(999), IntOf(1000), IntOf(1001),
     IntOf(-1), Str(<<"O", "c", "e", "a", "n">>), Str(<<"O", "C", "E", "A",
         "N">>), Str(<<"o", "c", "e", "a", "n">>), Str(<<"R", "h", "y", "t",
             "h", "m">>),
     Str(<<"p", "a", "s", "t", "e", "l", " ", "C", "o", "l", "o", "r",
         "s">>), Str(<<"W", "a", "k", "e", "-", "u", "p">>), Str(<<"O", "c",
             "e", "a", "n", "n">>), Str(<<>>),
     Str(<<" ", "O", "c", "e", "a", "n">>), Str(<<"P", "a", "s", "t", "e",
         "l", "c", "o", "l", "o", "r", "s">>)}
SceneArgs ==
    {[Defaults EXCEPT !.scene = x, !.brightness = d, !.speed = s] :
        x \in SceneValues, d \in {None, IntOf(128), FloatOf(128)},
        s \in {None, IntOf(100), Str(<<"f", "a", "s", "t">>)}}
BuilderArgs ==
    PrecedenceArgs \cup ChannelArgs \cup LevelArgs \cup TupleArgs
        \cup SceneArgs

\* PilotBuilder(**kwargs)
build ==
    /\ b_pc = "called"
    /\ _params' = PilotBuilder(kwargs)
    /\ b_pc' = IF _params'.raised = "none" THEN "built" ELSE "raised"
    /\ UNCHANGED <<kwargs, capVars, detectVars, clientVars, sendVars, pushVars, discVars,
                   facadeVars>>

\* no call of the constructor
NoKwargs == [state |-> TRUE]
BuildIdle ==
    /\ b_pc = "idle"
    /\ kwargs = NoKwargs
    /\ _params = NoParams
\* a call of the constructor with any of the arguments above
BuildInit ==
    /\ b_pc = "called"
    /\ kwargs \in BuilderArgs
    /\ _params = NoParams

(***************************************************************************)
(* One UDPClient used by several tasks (protocol.py): its endpoint, the    *)
(* response future of the endpoint's WizProtocol, and the datagrams that   *)
(* reach the endpoint.                                                     *)
(***************************************************************************)
\* most _send_once() calls made on the client
MaxRequests == 2

\* the tasks that call the client
Callers == {1, 2}

\* the address every request is sent to, and another host of the network
DeviceIp == "192.168.1.50"
OtherIp == "192.168.1.66"

\* what a decodable datagram is: its peer address and the request the
\* device answers with it (0 when it answers none)
Reply(peer, req) == [peer |-> peer, req |-> req]
NoReply == Reply("none", 0)

\* a _send_once() call: its caller, the command it is an attempt of, the
\* ip it sends to, the endpoint it sends from, and its response future
\* ("pending", "result", "returned" once awaited, or "timeout")
Request(caller, cmd, ip, ep, state, response) ==
    [caller |-> caller, cmd |-> cmd, ip |-> ip, ep |-> ep, state |-> state,
     response |-> response]

\* an endpoint: whether it is open, and protocol._response_future as an
\* index of c_requests (0: None)
Endpoint(open, fut) == [open |-> open, future |-> fut]

\* a task: "idle", "creating" (suspended in create_datagram_endpoint) or
\* "waiting" (suspended in wait_for), the method it is in, the command it
\* sends and its request
Caller(at, op, cmd, req) == [pc |-> at, op |-> op, cmd |-> cmd, req |-> req]
IdleCaller == Caller("idle", "none", 0, 0)

\* the call task k has in progress
CallerAt(k) == IF k \in DOMAIN c_callers THEN c_callers[k] ELSE IdleCaller
\* c_callers once task k is in call c, and once its call has ended
InCall(k, c) ==
    [j \in DOMAIN c_callers \cup {k} |-> IF j = k THEN c ELSE c_callers[j]]
CallEnded(k) == [j \in DOMAIN c_callers \ {k} |-> c_callers[j]]

COp(op, caller, req) == [op |-> op, caller |-> caller, req |-> req]

\* the requests caller k has made
RequestsOf(k) == {r \in 1..Len(c_requests) : c_requests[r].caller = k}

(* The commands caller k may send next: its first one, the one after its    *)
(* last, or its last one again when the attempt timed out (send() goes to   *)
(* its next attempt, or has raised and the caller moved on).                *)
NextCommands(k) ==
    IF RequestsOf(k) = {} THEN {1}
    ELSE LET r == CHOOSE x \in RequestsOf(k) : \A y \in RequestsOf(k) : y <= x
         IN  IF c_requests[r].state = "timeout"
             THEN {c_requests[r].cmd, c_requests[r].cmd + 1}
             ELSE {c_requests[r].cmd + 1}

\* if self._transport is not None and not self._transport.is_closing()
TransportReady == c_transport # 0 /\ c_endpoints[c_transport].open

(* _send_once after _ensure_transport has returned endpoint ep to caller k: *)
(* the new future replaces protocol._response_future, the datagram is       *)
(* handed to sendto and the task suspends in wait_for.                      *)
SendOn(eps, ep, k, cmd) ==
    LET r == Len(c_requests) + 1
    IN  /\ c_requests' = Append(c_requests,
                               Request(k, cmd, DeviceIp, ep, "pending", NoReply))
        /\ c_endpoints' = [eps EXCEPT ![ep].future = r]
        /\ c_callers' = InCall(k, Caller("waiting", "send", cmd, r))
        /\ c_last' = COp("sent", k, r)

\* everything but the client
notClient == <<sendVars, pushVars, discVars, facadeVars, capVars, detectVars,
               buildVars>>

\* await client.send(ip, message), up to the first await of its _send_once
client_send(k, cmd) ==
    /\ CallerAt(k).pc = "idle"
    /\ Len(c_requests) < MaxRequests
    /\ cmd \in NextCommands(k)
    /\ IF TransportReady
       THEN /\ SendOn(c_endpoints, c_transport, k, cmd)
            /\ UNCHANGED c_transport
       ELSE /\ Len(c_endpoints)
                 + Cardinality({j \in Callers : CallerAt(j).pc = "creating"})
                 < MaxEndpoints
            /\ c_callers' = InCall(k, Caller("creating", "send", cmd, 0))
            /\ c_last' = COp("creating", k, 0)
            /\ UNCHANGED <<c_transport, c_endpoints, c_requests>>
    /\ UNCHANGED <<c_net, notClient>>

\* await client.send_no_reply(ip, message), up to its first await
send_no_reply(k) ==
    /\ CallerAt(k).pc = "idle"
    /\ IF TransportReady
       THEN /\ c_last' = COp("sent_no_reply", k, 0)
            /\ UNCHANGED c_callers
       ELSE /\ Len(c_endpoints)
                 + Cardinality({j \in Callers : CallerAt(j).pc = "creating"})
                 < MaxEndpoints
            /\ c_callers' = InCall(k, Caller("creating", "send_no_reply", 0, 0))
            /\ c_last' = COp("creating", k, 0)
    /\ UNCHANGED <<c_transport, c_endpoints, c_requests, c_net, notClient>>

(* create_datagram_endpoint returns to caller k, suspended in               *)
(* _ensure_transport: the new endpoint is stored in self._transport and     *)
(* self._protocol, and the method that called goes on to its sendto.        *)
_ensure_transport(k) ==
    /\ CallerAt(k).pc = "creating"
    /\ LET ep == Len(c_endpoints) + 1
           eps == Append(c_endpoints, Endpoint(TRUE, 0))
       IN  /\ c_transport' = ep
           /\ IF CallerAt(k).op = "send"
              THEN SendOn(eps, ep, k, CallerAt(k).cmd)
              ELSE /\ c_endpoints' = eps
                   /\ c_callers' = CallEnded(k)
                   /\ c_last' = COp("sent_no_reply", k, 0)
                   /\ UNCHANGED c_requests
    /\ UNCHANGED <<c_net, notClient>>

\* await client.close()
client_close ==
    /\ c_endpoints' = IF TransportReady
                      THEN [c_endpoints EXCEPT ![c_transport].open = FALSE]
                      ELSE c_endpoints
    /\ c_transport' = 0
    /\ c_last' = COp("close", 0, 0)
    /\ UNCHANGED <<c_requests, c_callers, c_net, notClient>>

\* the device answers request r, now or late, once or again
ClientReply(r) ==
    /\ r \in 1..Len(c_requests)
    /\ Cardinality(c_net) < MaxInFlight
    /\ c_net' = c_net \cup {[ep |-> c_requests[r].ep, reply |-> Reply(DeviceIp, r)]}
    /\ c_last' = COp("reply", 0, r)
    /\ UNCHANGED <<c_transport, c_endpoints, c_requests, c_callers, notClient>>

\* another host sends a datagram to endpoint ep
OtherDatagram(ep) ==
    /\ ep \in 1..Len(c_endpoints)
    /\ c_endpoints[ep].open
    /\ Cardinality(c_net) < MaxInFlight
    /\ c_net' = c_net \cup {[ep |-> ep, reply |-> Reply(OtherIp, 0)]}
    /\ c_last' = COp("other", 0, 0)
    /\ UNCHANGED <<c_transport, c_endpoints, c_requests, c_callers, notClient>>

\* datagram_received(self, data, addr) makes no use of addr
AnyPeer(ip, peer) == TRUE

(* WizProtocol.datagram_received on the endpoint datagram d reaches, for a  *)
(* decodable d; a closed endpoint receives nothing.                         *)
client_datagram_received(d) ==
    /\ d \in c_net
    /\ c_net' = c_net \ {d}
    /\ LET r == c_endpoints[d.ep].future
       IN  IF /\ c_endpoints[d.ep].open
              /\ r # 0
              /\ c_requests[r].state = "pending"
              /\ AnyPeer(c_requests[r].ip, d.reply.peer)
           THEN /\ c_requests' = [c_requests EXCEPT ![r].state = "result",
                                                    ![r].response = d.reply]
                /\ c_last' = COp("set_result", 0, r)
           ELSE /\ c_last' = COp("dropped", 0, 0)
                /\ UNCHANGED c_requests
    /\ UNCHANGED <<c_transport, c_endpoints, c_callers, notClient>>

\* wait_for times out in the _send_once of caller k and cancels its future
client_timeout(k) ==
    /\ CallerAt(k).pc = "waiting"
    /\ c_requests[CallerAt(k).req].state = "pending"
    /\ c_requests' = [c_requests EXCEPT ![CallerAt(k).req].state = "timeout"]
    /\ c_callers' = CallEnded(k)
    /\ c_last' = COp("timeout", k, CallerAt(k).req)
    /\ UNCHANGED <<c_transport, c_endpoints, c_net, notClient>>

\* wait_for returns the result of its future to the _send_once of caller k
client_return(k) ==
    /\ CallerAt(k).pc = "waiting"
    /\ c_requests[CallerAt(k).req].state = "result"
    /\ c_requests' = [c_requests EXCEPT ![CallerAt(k).req].state = "returned"]
    /\ c_callers' = CallEnded(k)
    /\ c_last' = COp("returned", k, CallerAt(k).req)
    /\ UNCHANGED <<c_transport, c_endpoints, c_net, notClient>>

\* UDPClient.__init__, and tasks that have not called it yet
ClientInit ==
    /\ c_transport = 0
    /\ c_endpoints = <<>>
    /\ c_requests = <<>>
    /\ c_callers = <<>>
    /\ c_net = {}
    /\ c_last = [op |-> "init"]

(***************************************************************************)
(* Specifications.                                                         *)
(***************************************************************************)
\* nothing asked of the device's capabilities, no detector or builder call
LibIdle == CapInit /\ DetectIdle /\ BuildIdle /\ ClientInit

InitSend ==
    /\ SendInit /\ PushInit /\ DiscInit /\ FacadeInit /\ ~client_given
    /\ LibIdle

NextSend ==
    \/ \E t \in TimeoutArgs : SendCall(t)
    \/ WakeUp
    \/ WaitTimeout
    \/ Resume
    \/ Tick
    \/ \E r \in 1..5, k \in {"result", "error", "malformed"} : DeviceReply(r, k)
    \/ \E m \in net : datagram_received(m)
    \/ error_received

\* one UDPClient, one send() on it, and the device
SpecSend == InitSend /\ [][NextSend]_vars

InitPush ==
    /\ PushInit /\ SendInit /\ retry_delays = _RETRY_DELAYS
    /\ DiscInit /\ FacadeInit /\ ~client_given
    /\ LibIdle

NextPush ==
    \/ start
    \/ start_resume
    \/ stop
    \/ \E mac \in SubscribeMacs, cb \in Callbacks : subscribe(mac, cb)
    \/ \E d \in 1..MaxSubscribe : unsubscribe(d)
    \/ \E cb \in DiscoveryCallbacks : on_discovery(cb)
    \/ \E cb \in DiscoveryCallbacks : discovery_unsubscribe(cb)
    \/ \E method \in {"syncPilot", "firstBeat"},
          mac \in MessageMacs, ip \in PeerIps : _on_message(method, mac, ip)
    \/ \E ip \in PeerIps : _on_message("getPilot", <<>>, ip)
    \/ undecodable_datagram

\* the push manager singleton, its callers and the devices that push to it
SpecPush == InitPush /\ [][NextPush]_vars

NextDispatch ==
    \/ start
    \/ start_resume
    \/ \E mac \in SubscribeMacs, cb \in Callbacks :
          SubscribeWithin(MaxSubscribe + 1, mac, cb)
    \/ \E mac \in MessageMacs, ip \in PeerIps : _on_message("syncPilot", mac, ip)

NextDiscovery ==
    \/ \E t \in DiscoveryTimeouts : find_wizlights(t)
    \/ \E raises \in BOOLEAN : endpoint_created(raises)
    \/ \E raises \in BOOLEAN : sleep_done(raises)
    \/ fw_cancel
    \/ \E d \in Datagrams : broadcast_received(d)

\* one find_wizlights() call, the task that may cancel it and the devices
SpecDiscovery == InitPush /\ [][NextDiscovery]_vars

InitFacade ==
    /\ PushInit /\ SendInit /\ retry_delays = _RETRY_DELAYS
    /\ DiscInit /\ FacadeInit
    /\ LibIdle

NextFacade ==
    \/ start_push
    \/ manager_started
    \/ \E res \in SendOutcomes, mac \in ConfigMacs : get_mac_done(res, mac)
    \/ \E res \in SendOutcomes : register_done(res)
    \/ \E i \in 1..MaxStartPush : ka_start(i)
    \/ \E i \in 1..MaxStartPush : ka_wake(i)
    \/ \E i \in 1..MaxStartPush, res \in SendOutcomes :
          ka_register_done(i, res)
    \/ \E i \in 1..MaxStartPush : ka_cancelled(i)
    \/ close
    \/ close_resume
    \/ updateState
    \/ \E res \in SendOutcomes, response \in PilotResponses :
          updateState_done(res, response)
    \/ \E mac \in PushMacs : push_message(mac)

\* one facade, its caller, its keep-alive tasks, the push manager and the
\* device
SpecFacade == InitFacade /\ [][NextFacade]_vars

\* the event loop runs a task that is ready, a sleep ends when its time has
\* passed, and a send of UDPClient ends within the bound of its schedule
FairKeepAlive ==
    \A i \in 1..MaxStartPush :
        /\ WF_vars(ka_start(i))
        /\ WF_vars(ka_wake(i))
        /\ WF_vars(\E res \in SendOutcomes : ka_register_done(i, res))

\* the steps of NextFacade without updateState
NextKeepAlive ==
    \/ start_push
    \/ manager_started
    \/ \E res \in SendOutcomes, mac \in ConfigMacs : get_mac_done(res, mac)
    \/ \E res \in SendOutcomes : register_done(res)
    \/ \E i \in 1..MaxStartPush : ka_start(i)
    \/ \E i \in 1..MaxStartPush : ka_wake(i)
    \/ \E i \in 1..MaxStartPush, res \in SendOutcomes :
          ka_register_done(i, res)
    \/ \E i \in 1..MaxStartPush : ka_cancelled(i)
    \/ close
    \/ close_resume
    \/ \E mac \in PushMacs : push_message(mac)

\* one facade whose caller starts push updates and closes it, its
\* keep-alive tasks under a fair event loop, the push manager and the device
SpecFacadeFair == InitFacade /\ [][NextKeepAlive]_vars /\ FairKeepAlive

\* a started push manager, callers that only subscribe (one more
\* subscription than under SpecPush) and the devices' syncPilot messages
SpecDispatch == InitPush /\ [][NextDispatch]_vars

NextCapability ==
    \/ get_bulbtype
    \/ \E res \in SendOutcomes, response \in SystemConfigResponses :
          get_bulbtype_done(res, response)
    \/ get_power
    \/ \E res \in PowerOutcomes,
          response \in PowerResponses \cup {NoPowerResponse} :
          get_power_done(res, response)
    \/ get_power_cancelled

\* one facade, its caller asking for the capability descriptor and for the
\* power reading, and the device
SpecCapability == InitFacade /\ [][NextCapability]_vars

InitDetect ==
    /\ PushInit /\ SendInit /\ retry_delays = _RETRY_DELAYS
    /\ DiscInit /\ FacadeInit /\ ~client_given
    /\ CapInit /\ BuildIdle /\ DetectInit /\ ClientInit

\* one call of the detector, for every module name and white range
SpecDetect == InitDetect /\ [][from_module_name]_vars

InitBuild ==
    /\ PushInit /\ SendInit /\ retry_delays = _RETRY_DELAYS
    /\ DiscInit /\ FacadeInit /\ ~client_given
    /\ CapInit /\ DetectIdle /\ BuildInit /\ ClientInit

\* one call of the constructor of PilotBuilder, for every argument list
SpecBuild == InitBuild /\ [][build]_vars

NextClient ==
    \/ \E k \in Callers, cmd \in 1..MaxRequests : client_send(k, cmd)
    \/ \E k \in Callers : send_no_reply(k)
    \/ \E k \in Callers : _ensure_transport(k)
    \/ client_close
    \/ \E r \in 1..MaxRequests : ClientReply(r)
    \/ \E ep \in 1..MaxEndpoints : OtherDatagram(ep)
    \/ \E d \in c_net : client_datagram_received(d)
    \/ \E k \in Callers : client_timeout(k)
    \/ \E k \in Callers : client_return(k)

NextFirstBeat ==
    \/ start
    \/ start_resume
    \/ \E cb \in Callbacks : subscribe(MacPlain, cb)
    \/ \E cb \in FirstBeatCallbacks : on_discovery(cb)
    \/ \E cb \in FirstBeatCallbacks : discovery_unsubscribe(cb)
    \/ \E mac \in MessageMacs, ip \in FirstBeatPeers :
          _on_message("firstBeat", mac, ip)

\* a started push manager, callers that register discovery callbacks and
\* subscribe, and the firstBeat messages of devices
SpecFirstBeat == InitPush /\ [][NextFirstBeat]_vars

\* one UDPClient, the tasks that send on it and close it, the device and
\* another host
SpecClient == InitPush /\ [][NextClient]_vars


(***************************************************************************)
(* Properties of UDPClient.send, checked under SpecSend.                   *)
(***************************************************************************)

\* C1: when the loop of send() is exhausted, one datagram was transmitted
\* per entry of the retry schedule and the timeout-error raised is chained
\* from the failure recorded for the last attempt; and a send() to a device
\* that never answered can only end in that timeout-error.
C1_RetryExhaustion ==
    /\ outcome.kind = "timeout-error" =>
          /\ sent = Len(retry_delays)
          /\ outcome.cause.attempt = Len(retry_delays)
          /\ outcome.cause.kind \in {"timeout", "connection"}
    /\ (pc = "done" /\ ~replied) => outcome.kind = "timeout-error"

C1_Witness ==
    /\ outcome.kind = "timeout-error"
    /\ ~replied
    /\ retry_delays = _RETRY_DELAYS
    /\ sent = 5
    /\ outcome.cause = [attempt |-> 5, kind |-> "timeout"]

\* C2: once the response a pending attempt receives holds an error key,
\* send() can only raise command-error: it is still in that attempt or has
\* raised, and no datagram was transmitted after that attempt's.
C2_ErrorResponseNotRetried ==
    (future.state = "result" /\ future.kind = "error") =>
        /\ pc = "waiting" \/ outcome.kind = "command-error"
        /\ sent = idx

C2_Witness ==
    /\ outcome.kind = "command-error"
    /\ retry_delays = _RETRY_DELAYS
    /\ idx = 1
    /\ sent = 1

\* C3: a send() with the default schedule and the default total timeout
\* ends (returns or raises) within that timeout.
C3_TotalTimeoutBound ==
    (pc = "done" /\ retry_delays = _RETRY_DELAYS /\ timeout = _TOTAL_TIMEOUT)
        => clock <= timeout

\* C4: a failing send() has failed by the sum of the schedule's delays plus
\* one per-attempt timeout min(timeout, 3.0) per entry of the schedule.
C4_FailureTimeBound ==
    outcome.kind \in {"timeout-error", "command-error"} =>
        clock <= SumSeq(retry_delays)
                   + Len(retry_delays) * Min(timeout, AttemptCap)

C4_Witness ==
    /\ outcome.kind = "timeout-error"
    /\ retry_delays = _RETRY_DELAYS
    /\ timeout = _TOTAL_TIMEOUT
    /\ clock = (0 + 1 + 3 + 6 + 12) + 5 * 6

(***************************************************************************)
(* Properties of PushManager, checked under SpecPush.                      *)
(***************************************************************************)
AllEndpointsClosed(eps) == \A e \in 1..Len(eps) : eps[e] = "closed"

\* C5: a start() on a manager that is running changes nothing: no endpoint
\* is asked for or created, the endpoint, the registry and the discovery
\* list stay as they are and the manager stays running.
C5_StartIdempotent ==
    [][(running /\ last'.op = "start") =>
          /\ running'
          /\ UNCHANGED <<transport, protocol, endpoints, startPending,
                         subscribers, disposers, discovery_callbacks>>]_vars

C5_Witness ==
    /\ last.op = "start"
    /\ running
    /\ transport # 0
    /\ endpoints[transport] = "open"
    /\ subscribers # EmptyDict

\* C6 as claimed: after stop() the endpoint is closed, the manager is not
\* running, and the subscriber registry and the discovery list are empty.
C6_StopClearsRegistry ==
    last.op = "stop" =>
        /\ ~running
        /\ AllEndpointsClosed(endpoints)
        /\ subscribers = EmptyDict
        /\ discovery_callbacks = <<>>

\* C6 as amended: after stop() every endpoint is closed, the manager is not
\* running and holds no transport and no protocol; the subscriber registry
\* and the discovery list are what they were before the stop.
C6_StopKeepsRegistry ==
    [][last'.op = "stop" =>
          /\ ~running'
          /\ transport' = 0
          /\ protocol' = "none"
          /\ AllEndpointsClosed(endpoints')
          /\ UNCHANGED <<subscribers, disposers, discovery_callbacks>>]_vars

C6_Witness ==
    /\ last.op = "stop"
    /\ Len(endpoints) > 0
    /\ AllEndpointsClosed(endpoints)
    /\ subscribers # EmptyDict
    /\ discovery_callbacks # <<>>

C8_DoubleUnsubscribeIdempotent ==
    [][(last.op = "unsubscribe" /\ last'.op = "unsubscribe"
          /\ last'.id = last.id) => subscribers' = subscribers]_vars

\* C9: a syncPilot whose mac is m (written as the registry writes it)
\* invokes the callbacks subscribed under m when it arrives, each once per
\* subscription and in subscription order, and no other callback.
C9_DispatchInOrder ==
    [][(last'.op = "syncPilot" /\ last'.mac # <<>>
          /\ NormalizeMac(last'.mac) = last'.mac) =>
          last'.calls = DictGet(subscribers, last'.mac, <<>>)]_vars

\* C10: a syncPilot whose params.mac is "AA:BB:CC:DD:EE:FF" invokes, once
\* per subscription, the callbacks subscribed with mac "aabbccddeeff".
C10_MessageMacNormalized ==
    [][(last'.op = "syncPilot" /\ last'.mac = MacColon) =>
          \A cb \in Callbacks :
              Cardinality(Positions(last'.calls, cb)) =
              Cardinality(Positions(
                  DictGet(subscribers, NormalizeMac(MacPlain), <<>>), cb))]_vars

(***************************************************************************)
(* Properties of the syncPilot dispatcher, checked under SpecDispatch.     *)
(***************************************************************************)

\* C11: when a callback raises during the dispatch of a syncPilot, no
\* exception leaves the dispatcher and every callback subscribed after the
\* raising one under the message's MAC is invoked for that message, in
\* subscription order.
C11_RaisingCallbackIsolated ==
    [][(last'.op = "syncPilot" /\ Positions(last'.calls, "cb_raises") # {}) =>
          LET l == DictGet(subscribers, MessageKey(last'.mac), <<>>)
              p == Least(Positions(l, "cb_raises"))
              n == Len(l) - p
              c == last'.calls
          IN  /\ last'.cb = "none"
              /\ Len(c) >= n
              /\ SubSeq(c, Len(c) - n + 1, Len(c)) = SubSeq(l, p + 1, Len(l))]_vars

(***************************************************************************)
(* Properties of find_wizlights, checked under SpecDiscovery.              *)
(***************************************************************************)
\* the MACs the collected responses carry
ResponseMacs == {responses[i].mac : i \in 1..Len(responses)} \ {<<>>}

\* C18: the list find_wizlights returns holds one record for each MAC the
\* collected responses carry and no other record; the record of a MAC holds
\* the peer IP of the first response that carries it.
C18_OneRecordPerMac ==
    fw_pc = "returned" =>
        /\ \A j, k \in 1..Len(fw_result) :
               fw_result[j].mac_address = fw_result[k].mac_address => j = k
        /\ SeenMacs(fw_result) = ResponseMacs
        /\ \A j \in 1..Len(fw_result) :
               LET first == Least({i \in 1..Len(responses) :
                                     responses[i].mac = fw_result[j].mac_address})
               IN  fw_result[j].ip_address = responses[first].ip

C18_Witness ==
    /\ fw_pc = "returned"
    /\ Len(responses) = 3
    /\ Len(fw_result) = 1
    /\ \E i \in 1..Len(responses) :
          /\ responses[i].mac = fw_result[1].mac_address
          /\ responses[i].ip # fw_result[1].ip_address
    /\ \E i \in 1..Len(responses) : responses[i].mac = <<>>

\* C19: however find_wizlights ends once its endpoint exists (it returns,
\* an exception leaves it, or it is cancelled in a sleep), the endpoint is
\* closed; the endpoint is open only while the call sleeps in its loop.
C19_EndpointClosedOnExit ==
    /\ fw_pc \in {"returned", "raised"} => bc_endpoint = "closed"
    /\ fw_pc = "cancelled" =>
          bc_endpoint = IF fw_i > 0 THEN "closed" ELSE "none"
    /\ bc_endpoint = "open" => fw_pc = "sleeping"

C19_Witness ==
    /\ fw_pc = "cancelled"
    /\ bc_endpoint = "closed"
    /\ responses # <<>>

(***************************************************************************)
(* Properties of the facade, checked under SpecFacade (C16: under          *)
(* SpecFacadeFair).                                                        *)
(***************************************************************************)
\* whether the facade's dispatcher is in the list registered under key
DispatcherUnder(subs, key) ==
    Positions(DictGet(subs, key, <<>>), "_on_push_update") # {}

\* C12: when close() returns, the transport of a client the facade created
\* is closed, and a client that was passed to the facade is as it was: no
\* step of close() touches it, and one that was open is still open.
C12_CloseOwnedClientOnly ==
    [][flast'.op \in {"close", "close_done"} =>
          client' = IF client_given \/ flast'.op = "close" THEN client
                                                           ELSE "closed"]_vars

C12_Witness ==
    /\ flast.op = "close_done"
    /\ client_given
    /\ client = "open"
    /\ Len(tasks) > 0

\* C13: no close() raises, whatever the facade has done before and
\* wherever its keep-alive task is; a close() that follows a close()
\* changes nothing of the facade, its client or the push manager.
C13_CloseIdempotent ==
    [][/\ flast'.op # "close_raised"
       /\ (flast.op = "close_done" /\ flast'.op \in {"close", "close_done"}) =>
             /\ flast'.op = "close_done"
             /\ UNCHANGED <<client, f_state, f_mac, push_callback, push_task,
                            tasks, pushVars>>]_vars

C13_Witness ==
    /\ flast.op = "close_done"
    /\ closes = 2
    /\ push_task # 0
    /\ tasks[push_task].pc = "cancelled"

\* C14: once close() has returned, every keep-alive task the facade started
\* has ended and no registration is sent.
C14_NoKeepAliveAfterClose ==
    closes > 0 =>
        /\ \A i \in 1..Len(tasks) : tasks[i].pc \in Ended
        /\ flast.op # "register"

\* C15: when start_push returns, the manager is running, the facade's
\* dispatcher is subscribed under the MAC getMac gave, the call comes from
\* the await of its one registration, and the task it created is the
\* facade's keep-alive task; that registration is the message with id 105
\* and is sent when the dispatcher is subscribed.
C15_StartPushPostcondition ==
    [][/\ flast'.op = "start_push_done" =>
             /\ running'
             /\ DispatcherUnder(subscribers', NormalizeMac(f_mac'))
             /\ ucall = [op |-> "start_push", pc |-> "registering"]
             /\ push_task' = Len(tasks')
             /\ tasks'[push_task'] = [pc |-> "created", cancel |-> FALSE]
       /\ (ucall'.pc = "registering" /\ ucall.pc # "registering") =>
             /\ flast' = FOp("register", 0, <<>>, RegistrationMessage)
             /\ flast'.data.id = 105
             /\ DispatcherUnder(subscribers', NormalizeMac(f_mac'))]_vars

C15_Witness ==
    /\ flast.op = "start_push_done"
    /\ running
    /\ f_mac = MacPlain
    /\ DispatcherUnder(subscribers, MacPlain)
    /\ tasks = <<[pc |-> "created", cancel |-> FALSE]>>

\* C16: a keep-alive task ends only when close() has cancelled it, and
\* until then it is sending a registration again and again, whether or not
\* its registrations fail.
C16_KeepAliveNeverStops ==
    \A i \in 1..MaxStartPush :
        /\ []((i <= Len(tasks) /\ tasks[i].pc \in Ended) => tasks[i].cancel)
        /\ []<>(\/ Len(tasks) < i
                \/ tasks[i].cancel
                \/ tasks[i].pc = "registering")

C16_Witness ==
    /\ flast.op = "ka_register_done"
    /\ flast.data = "WizLightError"
    /\ tasks[flast.task] = [pc |-> "sleeping", cancel |-> FALSE]
    /\ closes = 0

\* C17: after a second start_push has returned, with no close(), a
\* syncPilot for the MAC the facade is subscribed under invokes the newest
\* callback once and no other callback.
C17_SecondStartPushReplaces ==
    [][(/\ flast'.op = "syncPilot"
        /\ Len(tasks) >= 2
        /\ closes = 0
        /\ ucall.op = "none"
        /\ DispatcherUnder(subscribers, MessageKey(flast'.data))) =>
          flast'.invoked = <<push_callback>>]_vars

\* C20: an updateState whose getPilot response holds a result stores that
\* result as the cached state, and stores its mac when it has one, leaving
\* the cached MAC as it was otherwise; an updateState whose send raises
\* changes neither the cached state nor the cached MAC.
C20_UpdateStateFrame ==
    [][/\ (flast'.op = "updateState_done" /\ flast'.data.result # Absent) =>
             /\ f_state' = flast'.data.result
             /\ f_mac' = IF flast'.data.result.mac # <<>>
                         THEN flast'.data.result.mac
                         ELSE f_mac
       /\ flast'.op = "updateState_raised" =>
             UNCHANGED <<f_state, f_mac>>]_vars

C20_Witness ==
    /\ flast.op = "updateState_done"
    /\ flast.data.result # Absent
    /\ flast.data.result.mac = <<>>
    /\ f_mac = MacPlain
    /\ f_state = flast.data.result


(***************************************************************************)
(* The capability descriptor and the power reading of the facade.          *)
(***************************************************************************)
\* C21: get_bulbtype sends a getSystemConfig request only when no
\* capability descriptor is cached: once a descriptor has been cached, a
\* further call sends no request.
C21_SendsOnlyWhenUncached ==
    [][flast'.op = "send" /\ flast'.data = "getSystemConfig"
          => _bulbtype = NoBulbType]_vars


\* the getPower response carries watts that float() accepts
WattsPresent(res, response) ==
    /\ res = "response"
    /\ response.result = "dict"
    /\ response.w.t \in {"int", "float", "str"}

\* C22: get_power never raises. Whatever the getPower request comes to
\* (watts present, watts absent or null, a result that is no dict, watts
\* float() rejects, a timeout error, a command error, an error of the
\* socket), it returns the watts as a float or None, and it sets
\* power_monitoring to True exactly when it returns watts and to False
\* otherwise.
C22_GetPowerNeverRaises ==
    [][flast'.op = "get_power_done"
          => /\ returned'.how = "value"
             /\ IF WattsPresent(flast'.data.res, flast'.data.response)
                THEN /\ returned'.watts =
                            Watts("float", flast'.data.response.w.v)
                     /\ power_monitoring' = "True"
                ELSE /\ returned'.watts = NoWatts
                     /\ power_monitoring' = "False"]_vars
\* get_power has returned None after a timeout of its request, the flag
\* set to False
C22_Witness ==
    /\ flast.op = "get_power_done"
    /\ flast.data.res = "WizLightTimeOutError"
    /\ returned = Returned("value", NoWatts)
    /\ power_monitoring = "False"


(***************************************************************************)
(* PilotBuilder.                                                           *)
(***************************************************************************)
\* the keys of the modes
ModeKeys == {"sceneId", "r", "g", "b", "w", "c", "temp"}

\* C23: for every combination of the other arguments, a pilot built with
\* state=False is exactly {"state": False}: no mode key, no dimming, speed
\* or ratio key, and no error for the arguments that are dropped.
C23_TurnOffOnlyState ==
    b_pc \in {"built", "raised"} /\ ~kwargs.state
        => /\ b_pc = "built"
           /\ _params = Params("none", "none", {"state"}, FALSE)
\* a pilot was built with state=False from arguments that give a mode, an
\* unknown scene among them, and a brightness that is no int
C23_Witness ==
    /\ b_pc = "built"
    /\ ~kwargs.state
    /\ kwargs.scene = Str(<<"n", "o", "p", "e">>)
    /\ kwargs.r # None
    /\ kwargs.rgbw = Tuple(<<IntOf(1), IntOf(2)>>)
    /\ kwargs.brightness = FloatOf(128)
    /\ _params.keys = {"state"}


\* max(lo, min(hi, v))
Clamped(v, lo, hi) == IF v < lo THEN lo ELSE IF v > hi THEN hi ELSE v
\* the keys r, g, b (and w, c where the tuple is long enough) hold the
\* items of the tuple t, clamped to 0..255
HoldsTuple(p, t, most) ==
    /\ p.keys \cap ModeKeys =
          {"r", "g", "b"}
              \cup (IF Len(t.items) > 3 THEN {"w"} ELSE {})
              \cup (IF Len(t.items) > 4 /\ most > 4 THEN {"c"} ELSE {})
    /\ p.r = Clamped(t.items[1].v, 0, 255)
    /\ p.g = Clamped(t.items[2].v, 0, 255)
    /\ p.b = Clamped(t.items[3].v, 0, 255)

\* C24: a pilot built with state=True holds the keys of at most one mode,
\* the one of the first argument present in the order scene, rgbww, rgbw,
\* r/g/b, colortemp: sceneId never comes with r, g, b, w, c or temp, and
\* r, g, b never come with temp.
C24_OneModeByPriority ==
    b_pc = "built" /\ kwargs.state
        => LET k == _params.keys \cap ModeKeys
           IN  /\ "sceneId" \in k => k = {"sceneId"}
               /\ "temp" \in k => k = {"temp"}
               /\ IF kwargs.scene # None THEN k = {"sceneId"}
                  ELSE IF kwargs.rgbww # NoTuple
                  THEN HoldsTuple(_params, kwargs.rgbww, 5)
                  ELSE IF kwargs.rgbw # NoTuple
                  THEN HoldsTuple(_params, kwargs.rgbw, 4)
                  ELSE IF kwargs.r # None \/ kwargs.g # None
                          \/ kwargs.b # None
                  THEN /\ {"r", "g", "b"} \subseteq k
                       /\ k \subseteq {"r", "g", "b", "w", "c"}
                  ELSE IF kwargs.colortemp # None THEN k = {"temp"}
                  ELSE k = {}
\* the pilot of scene="Fireplace", r=10, g=20, b=30, colortemp=3000 is
\* built, and of the modes it holds sceneId 5 alone
C24_Witness ==
    /\ b_pc = "built"
    /\ kwargs.state
    /\ kwargs.scene =
          Str(<<"F", "i", "r", "e", "p", "l", "a", "c", "e">>)
    /\ kwargs.r = IntOf(10) /\ kwargs.g = IntOf(20) /\ kwargs.b = IntOf(30)
    /\ kwargs.colortemp = IntOf(3000)
    /\ kwargs.rgbw = NoTuple /\ kwargs.rgbww = NoTuple
    /\ _params.keys \cap ModeKeys = {"sceneId"}
    /\ _params.sceneId = 5


\* every item of the tuple t is an int, t is None included
IntItems(t) == \A i \in 1..Len(t.items) : t.items[i].t = "int"
\* every numeric argument that is given is an int, and a tuple that is
\* given has at least r, g and b
IntegerInput(a) ==
    /\ \A x \in {a.brightness, a.speed, a.ratio, a.r, a.g, a.b,
                 a.warm_white, a.cold_white, a.colortemp} :
          x.t \in {"None", "int"}
    /\ IntItems(a.rgbw) /\ IntItems(a.rgbww)
    /\ a.rgbw # NoTuple => Len(a.rgbw.items) >= 3
    /\ a.rgbww # NoTuple => Len(a.rgbww.items) >= 3
\* the key holds the argument clamped to lo..hi, when the argument is given
Emits(p, key, x, lo, hi) ==
    x # None => key \in p.keys /\ p[key] = Clamped(x.v, lo, hi)

\* C25: for integer input the builder rejects no value (it raises for an
\* unknown scene only), and it emits dimming within 10..255, temp within
\* 1000..10000, speed within 1..200, ratio within 0..100 and each of r, g,
\* b, w, c within 0..255: a value out of range becomes the nearest bound,
\* a value in range is emitted as it is.
C25_ClampsIntegers ==
    b_pc \in {"built", "raised"} /\ kwargs.state /\ IntegerInput(kwargs)
        => IF b_pc = "raised"
           THEN kwargs.scene # None /\ _params.about = "scene"
           ELSE
           /\ Emits(_params, "dimming", kwargs.brightness, 10, 255)
           /\ Emits(_params, "speed", kwargs.speed, 1, 200)
           /\ Emits(_params, "ratio", kwargs.ratio, 0, 100)
           /\ IF kwargs.scene # None THEN "sceneId" \in _params.keys
              ELSE IF kwargs.rgbww # NoTuple
              THEN /\ HoldsTuple(_params, kwargs.rgbww, 5)
                   /\ \A i \in {4, 5} \cap 1..Len(kwargs.rgbww.items) :
                         _params[<<"w", "c">>[i - 3]] =
                            Clamped(kwargs.rgbww.items[i].v, 0, 255)
              ELSE IF kwargs.rgbw # NoTuple
              THEN /\ HoldsTuple(_params, kwargs.rgbw, 4)
                   /\ Len(kwargs.rgbw.items) > 3 =>
                         _params.w = Clamped(kwargs.rgbw.items[4].v, 0, 255)
              ELSE IF kwargs.r # None \/ kwargs.g # None \/ kwargs.b # None
              THEN /\ _params.r = Clamped(kwargs.r.v, 0, 255)
                   /\ _params.g = Clamped(kwargs.g.v, 0, 255)
                   /\ _params.b = Clamped(kwargs.b.v, 0, 255)
                   /\ Emits(_params, "w", kwargs.warm_white, 0, 255)
                   /\ Emits(_params, "c", kwargs.cold_white, 0, 255)
              ELSE Emits(_params, "temp", kwargs.colortemp, 1000, 10000)
           /\ \A key \in _params.keys \cap {"r", "g", "b", "w", "c"} :
                 _params[key] \in 0..255
\* a pilot was built from a colortemp, a brightness, a speed and a ratio
\* that are all out of range, each replaced by the nearest bound
C25_Witness ==
    /\ b_pc = "built"
    /\ kwargs.colortemp = IntOf(10001) /\ _params.temp = 10000
    /\ kwargs.brightness = IntOf(9) /\ _params.dimming = 10
    /\ kwargs.speed = IntOf(201) /\ _params.speed = 200
    /\ kwargs.ratio = IntOf(-1) /\ _params.ratio = 0
    /\ _params.keys = {"state", "temp", "dimming", "speed", "ratio"}


\* the entries of the registry the scene argument names: by id for an int,
\* by name without regard to case for a str
SceneEntries(scene) ==
    {i \in 1..Len(SCENES) :
        IF scene.t = "int" THEN SCENES[i].id = scene.v
        ELSE Upper(SCENES[i].name) = Upper(scene.s)}

\* C26: building a pilot with state=True and a scene fails with
\* WizLightInvalidParameter about the scene exactly when the scene is an
\* int that is no id of the registry or a str that matches no name of the
\* registry without regard to case; otherwise sceneId is the registry id of
\* the scene (and the call fails only if brightness or speed is rejected).
C26_SceneResolution ==
    b_pc \in {"built", "raised"} /\ kwargs.state /\ kwargs.scene # None
        => /\ (b_pc = "raised" /\ _params.about = "scene")
                <=> SceneEntries(kwargs.scene) = {}
           /\ b_pc = "raised" =>
                 /\ _params.raised = "WizLightInvalidParameter"
                 /\ \/ _params.about = "scene"
                    \/ kwargs.brightness.t \notin {"None", "int"}
                    \/ kwargs.speed.t \notin {"None", "int"}
           /\ b_pc = "built" =>
                 /\ "sceneId" \in _params.keys
                 /\ \E i \in SceneEntries(kwargs.scene) :
                       _params.sceneId = SCENES[i].id
\* a pilot was built from a scene name written in another case than the
\* registry's, with the id of that scene
C26_Witness ==
    /\ b_pc = "built"
    /\ kwargs.scene =
          Str(<<"p", "a", "s", "t", "e", "l", " ", "C", "o", "l", "o", "r",
                "s">>)
    /\ _params.sceneId = 8


\* the argument is given and is no int
NonInteger(x) == x.t \notin {"None", "int"}
\* a numeric argument of the mode the call selects, or brightness, speed or
\* ratio, is given a value that is no int
NonIntegerUsed(a) ==
    \/ NonInteger(a.brightness) \/ NonInteger(a.speed) \/ NonInteger(a.ratio)
    \/ IF a.scene # None THEN FALSE
       ELSE IF a.rgbww # NoTuple
       THEN \E i \in 1..Len(a.rgbww.items) :
               i <= 5 /\ NonInteger(a.rgbww.items[i])
       ELSE IF a.rgbw # NoTuple
       THEN \E i \in 1..Len(a.rgbw.items) :
               i <= 4 /\ NonInteger(a.rgbw.items[i])
       ELSE IF a.r # None \/ a.g # None \/ a.b # None
       THEN \E x \in {a.r, a.g, a.b, a.warm_white, a.cold_white} :
               NonInteger(x)
       ELSE NonInteger(a.colortemp)

\* C27: building a pilot with state=True fails with WizLightInvalidParameter
\* whenever a numeric parameter of the selected mode, or brightness, speed
\* or ratio, is given a value that is no int, an r, g or b of 0.0 included.
C27_NonIntegerRejected ==
    b_pc \in {"built", "raised"} /\ kwargs.state /\ NonIntegerUsed(kwargs)
        => b_pc = "raised" /\ _params.raised = "WizLightInvalidParameter"


(***************************************************************************)
(* The detector.                                                           *)
(***************************************************************************)
\* the white range has min and max
HasMinMax(wr) == {"min", "max"} \subseteq wr.keys

\* C28: whenever white_range with min and max is provided, the detector
\* returns a descriptor whose kelvin range is exactly (min, max), for every
\* module name (entries of the exact table, pattern matches and unknown
\* names that fall back to the RGB default), with the class, the features
\* and the name it returns without a white range.
C28_WhiteRangeOverrides ==
    d_pc = "returned" /\ HasMinMax(white_range)
        => /\ detected.kelvin_range =
                 KelvinRange(white_range.min, white_range.max)
           /\ [detected EXCEPT !.kelvin_range = NoKelvin] =
                 [detect_bulb_type(module_name, NoWhiteRange)
                     EXCEPT !.kelvin_range = NoKelvin]


\* C29: the descriptor get_bulbtype caches has white_channels 2 when the
\* upper-cased module name contains "RGBWW", 1 when it contains "RGBW" but
\* not "RGBWW", and 0 when it contains neither; for "ESP01_SHRGB3_01ABI"
\* with whiteRange {min: 2700, max: 5000} it has class RGB, kelvin range
\* (2700, 5000) and white_channels 0.
C29_WhiteChannels ==
    _bulbtype # NoBulbType
        => /\ _bulbtype.white_channels =
                 IF Contains(Upper(_bulbtype.name),
                             <<"R", "G", "B", "W", "W">>) THEN 2
                 ELSE IF Contains(Upper(_bulbtype.name),
                                  <<"R", "G", "B", "W">>) THEN 1
                 ELSE 0
           /\ /\ _bulbtype.name =
                    <<"E", "S", "P", "0", "1", "_", "S", "H", "R", "G", "B",
                      "3", "_", "0", "1", "A", "B", "I">>
              /\ _system_config.whiteRange =
                    WhiteRange({"min", "max"}, 2700, 5000)
              => /\ _bulbtype.bulb_type = "RGB"
                 /\ _bulbtype.kelvin_range = KelvinRange(2700, 5000)
                 /\ _bulbtype.white_channels = 0


\* the pattern that is the first match of name, by position, or 0
FirstMatch(name) ==
    IF MatchingPatterns(Upper(name)) = {} THEN 0
    ELSE Least(MatchingPatterns(Upper(name)))
\* the descriptor pattern i supplies for name
Supplies(i, name, wr) ==
    BulbType(_MODULE_PATTERNS[i].bulb_class, name,
             _MODULE_PATTERNS[i].features,
             OverrideKelvin(_MODULE_PATTERNS[i].kelvin, wr))

\* C30: every pattern of the ordered list is reachable. No pattern is
\* preceded by a pattern that is a substring of it, and for each of the 11
\* patterns (SHTW, DHTW, SHRGB and DHRGB included) there is a module name,
\* not an entry of the exact table, for which that pattern is the first
\* match and supplies the class, the features and the kelvin range.
C30_EveryPatternReachable ==
    /\ \A i \in 1..Len(_MODULE_PATTERNS) : \A j \in 1..(i - 1) :
          ~Contains(_MODULE_PATTERNS[i].pattern, _MODULE_PATTERNS[j].pattern)
    /\ \A i \in 1..Len(_MODULE_PATTERNS) : \E name \in ModuleNames :
          /\ KnownEntries(name) = {}
          /\ FirstMatch(name) = i
          /\ detect_bulb_type(name, NoWhiteRange) =
                Supplies(i, name, NoWhiteRange)
    /\ d_pc = "returned" /\ KnownEntries(module_name) = {}
       /\ Contains(Upper(module_name), <<"S", "H", "R", "G", "B">>)
       /\ FirstMatch(module_name) \notin 1..4
          => detected = Supplies(10, module_name, white_range)


(***************************************************************************)
(* Properties of a UDPClient used by several tasks, checked under          *)
(* SpecClient.                                                             *)
(***************************************************************************)

\* C31: a send on the client never replaces the response future of a
\* request that is still waiting: when _send_once stores its new future in
\* the protocol of its endpoint, the future that was there is not pending.
C31_PendingFutureNotReplaced ==
    [][c_last'.op = "sent" =>
          LET ep == c_requests'[c_last'.req].ep
              old == IF ep <= Len(c_endpoints) THEN c_endpoints[ep].future ELSE 0
          IN  old = 0 \/ c_requests[old].state # "pending"]_vars

\* C32: the response _send_once returns is a datagram of the peer its
\* request was sent to.
C32_ResponseFromPeer ==
    [][c_last'.op = "returned" =>
          c_requests[c_last'.req].response.peer = c_requests[c_last'.req].ip]_vars

\* whether every request so far was made by one task, which awaits each
\* send before it makes the next
Sequential ==
    \A r, q \in 1..Len(c_requests) : c_requests[r].caller = c_requests[q].caller

\* C38: when the commands are issued one after another, a response of the
\* device that a send returns answers a request of the command the send
\* is for, not one of an earlier command.
C38_ResponseOfOwnCommand ==
    [][(c_last'.op = "returned" /\ Sequential
          /\ c_requests[c_last'.req].response.peer = DeviceIp) =>
          c_requests[c_requests[c_last'.req].response.req].cmd =
              c_requests[c_last'.req].cmd]_vars

\* C40: every endpoint the client has created is the one it references or
\* is closed.
C40_OneOpenEndpoint ==
    \A ep \in 1..Len(c_endpoints) : ep = c_transport \/ ~c_endpoints[ep].open


(***************************************************************************)
(* Properties of the facade after close(), checked under SpecFacade.       *)
(***************************************************************************)

\* C37: once close() has returned, a syncPilot that reaches the push
\* manager invokes no user push callback and leaves the cached state of the
\* facade as it is.
C37_NoPushAfterClose ==
    [][(flast'.op = "syncPilot" /\ closes > 0) =>
          (flast'.invoked = <<>> /\ f_state' = f_state)]_vars


(***************************************************************************)
(* Properties of dispatch while callbacks change the registries, checked   *)
(* under SpecDispatch (C36, C39) and SpecFirstBeat (C35).                  *)
(***************************************************************************)

\* C36: when a callback invokes a disposer during the dispatch of a
\* syncPilot (the registry is another one after the dispatch), every
\* callback that was subscribed under the message's MAC when the message
\* arrived has been invoked, once for each of its subscriptions.
C36_DisposerDuringDispatch ==
    [][(last'.op = "syncPilot" /\ subscribers' # subscribers) =>
          LET l == DictGet(subscribers, MessageKey(last'.mac), <<>>)
          IN  \A cb \in Callbacks :
                  Cardinality(Positions(last'.calls, cb)) =
                  Cardinality(Positions(l, cb))]_vars

\* C35: a firstBeat with a non-empty params.mac invokes every discovery
\* callback registered when it arrives, once each and in registration
\* order, with the peer ip of the datagram and the lowercased mac; no
\* exception leaves the dispatcher and nothing else is invoked or
\* unsubscribed.
C35_FirstBeatInvokesAll ==
    [][(last'.op = "firstBeat" /\ last'.mac # <<>>) =>
          /\ last'.cb = "none"
          /\ last'.calls =
                 [i \in 1..Len(discovery_callbacks) |->
                     [cb |-> discovery_callbacks[i], ip |-> last'.ip,
                      mac |-> Lower(last'.mac)]]
          /\ subscribers' = subscribers]_vars

\* C39: on a manager that is never stopped, no start() call fails, however
\* the start() calls interleave: none raises when its
\* create_datagram_endpoint returns.
C39_ConcurrentStartsSucceed ==
    [][last'.op # "start_failed"]_vars


(***************************************************************************)
(* Properties of the attempts of UDPClient.send, checked under SpecSend.   *)
(***************************************************************************)

C34_UndecodableIgnored ==
    [][/\ (\E m \in net : m.kind = "malformed" /\ net' = net \ {m}) =>
              (future' = future /\ pc' = pc /\ deadline' = deadline
                 /\ outcome' = outcome /\ last_exc' = last_exc)
       /\ (dropped /\ future.state = "pending"
             /\ \E m \in net : m.kind # "malformed" /\ net' = net \ {m}) =>
              \E m \in net :
                  /\ net' = net \ {m}
                  /\ future' = [state |-> "result", kind |-> m.kind,
                                req |-> m.req]
       /\ (dropped /\ future.state = "result" /\ future.kind = "result"
             /\ pc = "waiting" /\ pc' # pc) =>
              (pc' = "done" /\ outcome'.kind = "response"
                 /\ outcome'.response = future.kind)]_vars

\* send() has returned the response that arrived after an undecodable
\* datagram during the same attempt
C34_Witness ==
    /\ pc = "done"
    /\ outcome.kind = "response"
    /\ dropped

=============================================================================
